---- MODULE Spec2Model ----
(***************************************************************************)
(* Treatment lifecycle of the fish monitoring system: the database tables  *)
(* of supabase/migrations/001_initial_schema.sql, the REST calls of        *)
(* frontend/src/api/client.js, and the handlers of the Treatments view     *)
(* (TreatmentView.vue and its earlier revisions) and of the Shipments list *)
(* view.  Dates are day numbers, the clock `now` counts ticks of half a    *)
(* day, a numeric NULL is `null`, a text NULL is `nullText`, and the empty *)
(* string of a text or date input is "" or `emptyDate`.                    *)
(***************************************************************************)
EXTENDS Integers, Sequences, FiniteSets, TLC

\* ---------------------------------------------------------------- bounds
MaxShipments == 2
MaxTreatments == 1
MaxDrugRows == 2
MaxObservations == 2
MaxFollowups == 2
MaxInvoices == 1
MaxDay == 2
MaxRows == 2

\* ------------------------------------------------------------- constants
TicksPerDay == 2
\* the limit of the shipments request of the list
listLimit == 200
null == -1
emptyDate == -2
nullText == "null"
\* the null of a modal target that is otherwise a shipment object
noTarget == [id |-> null]

Outcomes == {"healthy", "minor_loss", "major_loss", "total_loss"}
Statuses == {"active", "completed", "modified"}
Dates == 0..MaxDay
MaxTick == (MaxDay + 1) * TicksPerDay - 1

\* ------------------------------------------------------- generic helpers
Max(a, b) == IF a >= b THEN a ELSE b

Range(s) == {s[i] : i \in DOMAIN s}

\* the ascending sequence of the elements of a finite set of integers
RECURSIVE SortedSeq(_)
SortedSeq(S) ==
  IF S = {} THEN <<>>
  ELSE LET m == CHOOSE x \in S : \A y \in S : x <= y
       IN <<m>> \o SortedSeq(S \ {m})

\* Merge of a PATCH body into a row: the fields the body names are replaced
Merge(row, patch) ==
  [f \in DOMAIN row |-> IF f \in DOMAIN patch THEN patch[f] ELSE row[f]]

\* a table without the rows whose ids are in ids
Without(table, ids) == [k \in DOMAIN table \ ids |-> table[k]]

\* a table with one more (or one replaced) row
With(table, id, row) ==
  [k \in DOMAIN table \cup {id} |-> IF k = id THEN row ELSE table[k]]

\* ------------------------------------------------ schema (001_initial_schema.sql)
\* shipments: quantity INTEGER NOT NULL CHECK (> 0), aquarium_volume_liters likewise
shipments_check_quantityOnly(row) == row.quantity > 0

shipments_check(row) == row.quantity > 0 /\ row.aquarium_volume_liters > 0

\* shipments.density DECIMAL(10, 2) GENERATED ALWAYS AS (quantity / volume), in
\* hundredths
shipments_density(row) ==
  (200 * row.quantity + row.aquarium_volume_liters) \div (2 * row.aquarium_volume_liters)

\* treatments: start_date DATE NOT NULL, end_date DATE, status CHECK (...),
\* outcome_score INTEGER CHECK (BETWEEN 1 AND 5); outcome is unconstrained TEXT
treatments_check(row) ==
  /\ row.start_date \in Nat
  /\ row.end_date \in Nat \cup {null}
  /\ row.status \in Statuses
  /\ row.outcome_score \in (1..5) \cup {null}

\* followup_assessments: success_rate DECIMAL(5, 2) CHECK (BETWEEN 0 AND 100), in
\* whole percents
followup_assessments_check(row) == row.success_rate \in (0..100) \cup {null}

on_delete_no_action(table, fk, parents) == table

\* ON DELETE CASCADE of a foreign key fk: the rows referencing a deleted parent go
on_delete_cascade(table, fk, parents) ==
  Without(table, {k \in DOMAIN table : table[k][fk] \in parents})

\* the seeded drug_protocols rows, by typical_treatment_period_days
\* (1: Formalin, 1 day; 2: a 2-day protocol; 3: a protocol without a period)
drug_protocols_seed ==
  (1 :> [typical_treatment_period_days |-> 1]) @@
  (2 :> [typical_treatment_period_days |-> 2]) @@
  (3 :> [typical_treatment_period_days |-> null])

EmptyTable == [k \in {} |-> 0]

db_empty ==
  [shipments |-> EmptyTable, treatments |-> EmptyTable, treatment_drugs |-> EmptyTable,
   daily_observations |-> EmptyTable, followup_assessments |-> EmptyTable,
   drug_protocols |-> drug_protocols_seed, invoices |-> {},
   serial |-> [shipments |-> 0, treatments |-> 0, treatment_drugs |-> 0,
               daily_observations |-> 0, followup_assessments |-> 0, invoices |-> 0]]

\* ------------------------------------------------------ the REST endpoints
\* Every call returns [ok, db, id]: whether it succeeded, the database after it
\* and the id of the row it created.  `up` is false when the request fails before
\* it reaches the database (network error, server down).
Failed(d) == [ok |-> FALSE, db |-> d, id |-> null]
Done(d, id) == [ok |-> TRUE, db |-> d, id |-> id]

\* POST /api/shipments/ and POST /api/invoices/{id}/fish: an absent volume is
\* stored as the sentinel 1 (the column is NOT NULL)
shipments_insert(d, up, data, invoice_id) ==
  LET id == d.serial.shipments + 1
      row == [source |-> data.source,
              quantity |-> data.quantity,
              aquarium_number |-> IF data.aquarium_number = "" THEN nullText
                                  ELSE data.aquarium_number,
              aquarium_volume_liters |-> IF data.aquarium_volume_liters = null THEN 1
                                         ELSE data.aquarium_volume_liters,
              invoice_id |-> invoice_id]
  IN IF ~up \/ ~shipments_check(row) \/ (invoice_id # null /\ invoice_id \notin d.invoices)
     THEN Failed(d)
     ELSE Done([d EXCEPT !.shipments = With(@, id, row), !.serial.shipments = id], id)

\* PATCH /api/shipments/{id}
shipmentsAPI_update(d, up, id, patch) ==
  IF ~up \/ id \notin DOMAIN d.shipments THEN Failed(d)
  ELSE LET row == Merge(d.shipments[id], patch)
       IN IF shipments_check(row)
          THEN Done([d EXCEPT !.shipments = With(@, id, row)], id)
          ELSE Failed(d)

\* DELETE /api/shipments/{id}: the row goes, and the foreign keys cascade
shipmentsAPI_delete(d, up, id) ==
  IF ~up \/ id \notin DOMAIN d.shipments THEN Failed(d)
  ELSE LET ts == {t \in DOMAIN d.treatments : d.treatments[t].shipment_id = id}
       IN Done([d EXCEPT
                  !.shipments = Without(@, {id}),
                  !.treatments = on_delete_cascade(@, "shipment_id", {id}),
                  !.treatment_drugs = on_delete_cascade(@, "treatment_id", ts),
                  !.daily_observations = on_delete_cascade(@, "treatment_id", ts),
                  !.followup_assessments = on_delete_cascade(@, "treatment_id", ts)], id)

\* POST /api/invoices/
invoicesAPI_create(d, up) ==
  LET id == d.serial.invoices + 1
  IN IF ~up THEN Failed(d)
     ELSE Done([d EXCEPT !.invoices = @ \cup {id}, !.serial.invoices = id], id)

\* DELETE /api/invoices/{id}: the invoice goes, its fish are detached
invoicesAPI_delete(d, up, id) ==
  IF ~up \/ id \notin d.invoices THEN Failed(d)
  ELSE Done([d EXCEPT
               !.invoices = @ \ {id},
               !.shipments = [s \in DOMAIN @ |->
                                IF @[s].invoice_id = id
                                THEN [@[s] EXCEPT !.invoice_id = null] ELSE @[s]]], id)

\* POST /api/treatments/: a treatment row (status DEFAULT 'active', no end date, no
\* outcome) and one treatment_drugs row per entry of data.drugs
treatmentsAPI_create(d, up, data) ==
  LET id == d.serial.treatments + 1
      row == [shipment_id |-> data.shipment_id, start_date |-> data.start_date,
              end_date |-> null, status |-> "active", outcome |-> nullText,
              outcome_score |-> null, total_mortality |-> 0, outcome_notes |-> nullText]
      n == Len(data.drugs)
      first == d.serial.treatment_drugs
      rows == [k \in (first + 1)..(first + n) |->
                 [treatment_id |-> id, drug_protocol_id |-> data.drugs[k - first]]]
  IN IF \/ ~up
        \/ data.shipment_id \notin DOMAIN d.shipments
        \/ ~treatments_check(row)
        \/ \E k \in 1..n : data.drugs[k] \notin DOMAIN d.drug_protocols
     THEN Failed(d)
     ELSE Done([d EXCEPT !.treatments = With(@, id, row),
                         !.serial.treatments = id,
                         !.treatment_drugs = rows @@ @,
                         !.serial.treatment_drugs = first + n], id)

\* PATCH /api/treatments/{id}
treatmentsAPI_update(d, up, id, patch) ==
  IF ~up \/ id \notin DOMAIN d.treatments THEN Failed(d)
  ELSE LET row == Merge(d.treatments[id], patch)
       IN IF treatments_check(row)
          THEN Done([d EXCEPT !.treatments = With(@, id, row)], id)
          ELSE Failed(d)

\* POST /api/treatments/{id}/complete: no request body, so no outcome; the
\* treatment is closed as of today
treatmentsAPI_complete(d, up, id, today) ==
  IF ~up \/ id \notin DOMAIN d.treatments THEN Failed(d)
  ELSE Done([d EXCEPT !.treatments[id].status = "completed",
                      !.treatments[id].end_date = today], id)

\* POST /api/treatments/{id}/drugs
treatmentsAPI_addDrug(d, up, id, data) ==
  LET k == d.serial.treatment_drugs + 1
  IN IF \/ ~up
        \/ id \notin DOMAIN d.treatments
        \/ data.drug_protocol_id \notin DOMAIN d.drug_protocols
     THEN Failed(d)
     ELSE Done([d EXCEPT !.treatment_drugs =
                           With(@, k, [treatment_id |-> id,
                                       drug_protocol_id |-> data.drug_protocol_id]),
                         !.serial.treatment_drugs = k], k)

\* DELETE /api/treatments/{id}/drugs/{drugId}
treatmentsAPI_removeDrug(d, up, id, drugId) ==
  IF \/ ~up
     \/ drugId \notin DOMAIN d.treatment_drugs
     \/ d.treatment_drugs[drugId].treatment_id # id
  THEN Failed(d)
  ELSE Done([d EXCEPT !.treatment_drugs = Without(@, {drugId})], drugId)

\* GET /api/protocols/
protocolsAPI_list(d) ==
  LET ids == SortedSeq(DOMAIN d.drug_protocols)
  IN [i \in DOMAIN ids |-> d.drug_protocols[ids[i]] @@ [id |-> ids[i]]]

\* FOREIGN KEY (drug_protocol_id) REFERENCES drug_protocols(id), with no ON DELETE
\* clause (NO ACTION): whether rows of treatment_drugs hold the protocol id
treatment_drugs_fkey(d, id) ==
  \E k \in DOMAIN d.treatment_drugs : d.treatment_drugs[k].drug_protocol_id = id

\* DELETE /api/protocols/{id}: the row goes, unless the foreign key holds it
protocolsAPI_delete(d, up, id) ==
  IF ~up \/ id \notin DOMAIN d.drug_protocols \/ treatment_drugs_fkey(d, id)
  THEN Failed(d)
  ELSE Done([d EXCEPT !.drug_protocols = Without(@, {id})], id)

\* GET /api/treatments/?active_only=...: the rows with their id and their drugs
treatmentsAPI_list(d, activeOnly) ==
  [t \in {k \in DOMAIN d.treatments : ~activeOnly \/ d.treatments[k].status = "active"} |->
     d.treatments[t] @@
     [id |-> t,
      drugs |-> LET ks == SortedSeq({k \in DOMAIN d.treatment_drugs :
                                       d.treatment_drugs[k].treatment_id = t})
                IN [i \in DOMAIN ks |->
                      [id |-> ks[i],
                       drug_protocol_id |-> d.treatment_drugs[ks[i]].drug_protocol_id]]]]

\* POST /api/observations/: a plain insert
observationsAPI_create(d, up, data) ==
  LET id == d.serial.daily_observations + 1
  IN IF ~up \/ data.treatment_id \notin DOMAIN d.treatments THEN Failed(d)
     ELSE Done([d EXCEPT !.daily_observations =
                           With(@, id, [treatment_id |-> data.treatment_id,
                                        observation_date |-> data.observation_date]),
                         !.serial.daily_observations = id], id)

\* POST /api/followups/
followupsAPI_create(d, up, data) ==
  LET id == d.serial.followup_assessments + 1
  IN IF \/ ~up
        \/ data.treatment_id \notin DOMAIN d.treatments
        \/ ~followup_assessments_check(data)
     THEN Failed(d)
     ELSE Done([d EXCEPT !.followup_assessments =
                           With(@, id, [treatment_id |-> data.treatment_id,
                                        followup_date |-> data.followup_date,
                                        success_rate |-> data.success_rate]),
                         !.serial.followup_assessments = id], id)

\* supplier_performance_view: shipments LEFT JOIN treatments LEFT JOIN
\* followup_assessments, as rows <<shipment, treatment, follow-up>> with null for the
\* side a LEFT JOIN finds nothing on
supplier_join(d) ==
  LET ts(k) == {t \in DOMAIN d.treatments : d.treatments[t].shipment_id = k}
      fs(t) == {f \in DOMAIN d.followup_assessments :
                  d.followup_assessments[f].treatment_id = t}
  IN UNION {IF ts(k) = {} THEN {<<k, null, null>>}
            ELSE UNION {IF fs(t) = {} THEN {<<k, t, null>>}
                        ELSE {<<k, t, f>> : f \in fs(t)} : t \in ts(k)} :
            k \in DOMAIN d.shipments}

\* SUM of a column, a value for every row, over a set of joined rows
RECURSIVE SUM(_, _)
SUM(rows, column) ==
  IF rows = {} THEN 0
  ELSE LET row == CHOOSE r \in rows : TRUE
       IN column[row] + SUM(rows \ {row}, column)

AVG_orZero(d, rows) ==
  LET rated == {r \in rows : r[3] # null /\ d.followup_assessments[r[3]].success_rate # null}
      rate == [r \in rated |-> d.followup_assessments[r[3]].success_rate]
  IN IF rated = {} THEN <<0, 1>> ELSE <<SUM(rated, rate), Cardinality(rated)>>

\* AVG(f.success_rate) over joined rows: NULL (<<>>) when no row has a rate, else the
\* sum and the count of the rates, the mean being their quotient
AVG(d, rows) ==
  LET rated == {r \in rows : r[3] # null /\ d.followup_assessments[r[3]].success_rate # null}
      rate == [r \in rated |-> d.followup_assessments[r[3]].success_rate]
  IN IF rated = {} THEN <<>> ELSE <<SUM(rated, rate), Cardinality(rated)>>

\* supplier_performance_view, GROUP BY s.source, by source
supplier_performance_view(d) ==
  LET joined == supplier_join(d)
      sources == {d.shipments[k].source : k \in DOMAIN d.shipments}
      quantity == [r \in joined |-> d.shipments[r[1]].quantity]
  IN [src \in sources |->
        LET rows == {r \in joined : d.shipments[r[1]].source = src}
        IN [source |-> src,
            shipment_count |-> Cardinality({r[1] : r \in rows}),
            total_fish |-> SUM(rows, quantity),
            avg_success_rate |-> AVG(d, rows)]]

\* GET /api/suppliers/scores: the suppliers with the average of the view
suppliersAPI_getScores(d) ==
  LET view == supplier_performance_view(d)
  IN [src \in DOMAIN view |->
        [source_country |-> src,
         total_shipments |-> view[src].shipment_count,
         average_success_rate |-> view[src].avg_success_rate]]

VARIABLES
  db,                  \* the database: one field per table, plus the serial counters
  now,                 \* the wall clock, in ticks
  route,               \* the path of the mounted view
  treatmentId,         \* DailyChecklist: the treatment of the route /checklist/:treatmentId
  treatments,          \* TreatmentView: the loaded treatments (with nested drugs)
  shipmentMap,         \* TreatmentView: the loaded shipments by id
  protocolMap,         \* TreatmentView: the loaded drug protocols by id
  showAll,             \* TreatmentView: the "Show completed" toggle
  graduateTarget,      \* TreatmentView: the treatment of the open graduate modal
  expandedId,          \* TreatmentView: the treatment of the open drug editor
  invoices,            \* ShipmentsList: the loaded invoices with their fish
  standaloneShipments, \* ShipmentsList: the loaded fish outside every invoice
  treatTarget,         \* ShipmentsList: the fish of the open start-treatment modal
  treatForm,           \* ShipmentsList: the start-treatment form
  cards,               \* DailyRounds: the cards of the active treatments
  callers,             \* the other sessions: their graduate modal and their request in flight
  fm_admin_token,      \* localStorage: the item fm_admin_token
  query,               \* the redirect of the query of the route
  fish_import_draft,   \* localStorage: the item fish_import_draft
  extracted,           \* ExcelImport: the import data being edited
  hasDraft,            \* ExcelImport: the resume banner
  createdShipments,    \* ExcelImport: the shipments of the last creation
  shipmentForm,        \* ShipmentForm: the form
  recommendation,      \* ShipmentForm: the answer of the advisor
  protocols,           \* DrugProtocols: the loaded protocols
  graduating,          \* TreatmentView: the flag of doGraduate while it awaits
  graduateRequests,    \* TreatmentView: the PATCH requests of doGraduate in flight
  last                 \* the handler that ran last, its inputs and whether it succeeded

vars == <<db, now, route, treatmentId, treatments, shipmentMap, protocolMap, showAll,
          graduateTarget, expandedId, invoices, standaloneShipments, treatTarget,
          treatForm, cards, callers,
          fm_admin_token,
          query,
          fish_import_draft,
          extracted,
          hasDraft,
          createdShipments,
          shipmentForm,
          recommendation,
          protocols,
          graduating,
          graduateRequests,
          last>>

tvVars == <<treatments, shipmentMap, protocolMap, showAll, graduateTarget, expandedId>>
slVars == <<invoices, standaloneShipments, treatTarget, treatForm>>
\* the state of the other views
moreVars == <<cards, callers, fm_admin_token, query, fish_import_draft, extracted, hasDraft,
              createdShipments, shipmentForm, recommendation, protocols, graduating,
              graduateRequests>>
importVars == <<fish_import_draft, extracted, hasDraft, createdShipments>>
\* what outlives the mounted view: the other sessions, the storage of the browser
keptVars == <<callers, fm_admin_token, fish_import_draft>>
\* the state of the other views of this session
hereVars == <<cards, fm_admin_token, query, fish_import_draft, extracted, hasDraft,
              createdShipments, shipmentForm, recommendation, protocols, graduating,
              graduateRequests>>
\* the state outside DailyRounds
offCards == <<callers, fm_admin_token, query, fish_import_draft, extracted, hasDraft,
              createdShipments, shipmentForm, recommendation, protocols, graduating,
              graduateRequests>>
\* the state outside ExcelImport
offImport == <<cards, callers, fm_admin_token, query, shipmentForm, recommendation,
               protocols, graduating, graduateRequests>>
\* the state outside ShipmentForm
offForm == <<cards, callers, fm_admin_token, query, fish_import_draft, extracted, hasDraft,
             createdShipments, protocols, graduating, graduateRequests>>
\* the state outside the graduate modal
offGraduate == <<cards, callers, fm_admin_token, query, fish_import_draft, extracted,
                 hasDraft, createdShipments, shipmentForm, recommendation, protocols>>

\* --------------------------------------------------------------- the clock
\* new Date().toISOString().slice(0, 10): the date of the current instant
TODAY == now \div TicksPerDay

\* new Date("YYYY-MM-DD"): midnight of that date, in ticks
DateToTicks(date) == date * TicksPerDay

\* JavaScript falsiness of a text value and of a numeric value
FalsyText(x) == x \in {"", nullText}
FalsyNum(x) == x \in {0, null}

\* ------------------------------------------------ TreatmentView: derived fields
\* (n).toFixed(2) of qty / vol, in hundredths (ties go up)
toFixed2(qty, vol) == (200 * qty + vol) \div (2 * vol)

daysActiveAt_untilNow(t, clock) ==
  Max(0, (clock - DateToTicks(t.start_date)) \div TicksPerDay)

\* daysActive(t) when new Date() is the instant clock
daysActiveAt(t, clock) ==
  LET start == DateToTicks(t.start_date)
      end == IF t.end_date # null THEN DateToTicks(t.end_date) ELSE clock
  IN Max(0, (end - start) \div TicksPerDay)

daysActive(t) == daysActiveAt(t, now)

MathMax_first(list) == list[1]

\* Math.max(...list) of a non-empty list
RECURSIVE MathMax(_)
MathMax(list) ==
  IF Len(list) = 1 THEN list[1] ELSE Max(list[1], MathMax(Tail(list)))

\* the typical_treatment_period_days of the drugs of t, without the missing ones
protocolDays(t) ==
  LET period(d) == IF d.drug_protocol_id \in DOMAIN protocolMap
                   THEN protocolMap[d.drug_protocol_id].typical_treatment_period_days
                   ELSE null
      all == [i \in DOMAIN t.drugs |-> period(t.drugs[i])]
  IN SelectSeq(all, LAMBDA d : d # null)

maxProtocolDays(t) ==
  IF Len(protocolDays(t)) > 0 THEN MathMax(protocolDays(t)) ELSE null

protocolDue(t) ==
  t.status = "active" /\ maxProtocolDays(t) # null /\ daysActive(t) >= maxProtocolDays(t)

\* the density of the card of t: null when it shows as "-"
density(t) ==
  LET known == t.shipment_id \in DOMAIN shipmentMap
      vol == IF known THEN shipmentMap[t.shipment_id].aquarium_volume_liters ELSE null
      qty == IF known THEN shipmentMap[t.shipment_id].quantity ELSE null
  IN IF ~FalsyNum(vol) /\ vol > 1 /\ ~FalsyNum(qty) THEN toFixed2(qty, vol) ELSE null

\* the card of treatment t of the list
enriched(t) ==
  [id |-> t.id, status |-> t.status, daysActive |-> daysActive(t),
   maxProtocolDays |-> maxProtocolDays(t), protocolDue |-> protocolDue(t),
   density |-> density(t)]

\* ------------------------------------------------------------- router.js
\* the routes, and the ones with meta.requiresAdmin
Paths ==
  {"/", "/shipments", "/shipments-list", "/import", "/treatments", "/daily",
   "/checklist", "/suppliers", "/protocols", "/login"}

routes ==
  [path \in Paths |->
     [requiresAdmin |-> path \in {"/shipments", "/import", "/daily", "/checklist"}]]

\* a location: the path, and the :treatmentId of /checklist/:treatmentId
Location(path, id) == [path |-> path, treatmentId |-> id]

Locations ==
  {Location(path, null) : path \in Paths \ {"/checklist"}}
    \cup {Location("/checklist", t) : t \in 1..MaxTreatments}

\* a segment of a token between two dots: no base64 ("raw"), base64 of text that is
\* no JSON ("text"), of the JSON null ("null"), of a JSON object with or without exp
Segment(kind, exp) == [kind |-> kind, exp |-> exp]

Payloads ==
  {Segment(kind, null) : kind \in {"raw", "text", "null", "claims"}}
    \cup {Segment("claims", exp) : exp \in 1..(MaxTick + 1)}

\* the strings a token can be: "", a string without a dot, three segments
Tokens ==
  {<<>>, <<Segment("raw", null)>>}
    \cup {<<Segment("raw", null), payload, Segment("raw", null)>> : payload \in Payloads}

\* the token of an admin whose session outlasts the clock
adminToken ==
  <<Segment("raw", null), Segment("claims", MaxTick + 1), Segment("raw", null)>>

\* const { exp } = JSON.parse(atob(token.split(".")[1])): the exp read (null when the
\* object has none), or the throw of atob, of JSON.parse or of the destructuring
readExp(token) ==
  IF Len(token) < 2 \/ token[2].kind # "claims"
  THEN [threw |-> TRUE, exp |-> null]
  ELSE [threw |-> FALSE, exp |-> token[2].exp]

\* the location the guard sends a navigation to: the one asked for (return true), or
\* /login with the one asked for as redirect
toLogin(to) == [path |-> "/login", treatmentId |-> null, redirect |-> <<to>>]
admitted(to) == [path |-> to.path, treatmentId |-> to.treatmentId, redirect |-> <<>>]

beforeEach_unlessThrown(to, item, clock) ==
  IF ~routes[to.path].requiresAdmin THEN admitted(to)
  ELSE IF item = <<>> \/ item[1] = <<>> THEN toLogin(to)
  ELSE LET r == readExp(item[1])
       IN IF r.threw THEN admitted(to)
          ELSE IF ~FalsyNum(r.exp) /\ r.exp < clock THEN toLogin(to)
          ELSE admitted(to)

\* router.beforeEach; item is localStorage.getItem("fm_admin_token"), <<>> for null
beforeEach(to, item, clock) ==
  IF ~routes[to.path].requiresAdmin THEN admitted(to)
  ELSE IF item = <<>> \/ item[1] = <<>> THEN toLogin(to)
  ELSE LET r == readExp(item[1])
       IN IF r.threw THEN toLogin(to)
          ELSE IF ~FalsyNum(r.exp) /\ r.exp < clock THEN toLogin(to)
          ELSE admitted(to)

\* useAuth: _parseExp and _isValid
parseExp(token) ==
  LET r == readExp(token) IN IF r.threw \/ FalsyNum(r.exp) THEN 0 ELSE r.exp

isValid(token, clock) == token # <<>> /\ parseExp(token) > clock

\* the computed isAdmin of useAuth
isAdmin == fm_admin_token # <<>> /\ isValid(fm_admin_token[1], now)

\* ------------------------------------------------------ the views and the router
\* One browser session: the router mounts one view at a time, a view is set up
\* afresh when it is mounted, and the state of a view that is not mounted is its
\* initial one.
blankTreatForm == [aquarium_number |-> "", aquarium_volume_liters |-> null, start_date |-> 0]

\* TreatmentView load(): the three lists are fetched and replace the loaded ones
tv_load(d, all) ==
  /\ treatments' = treatmentsAPI_list(d, ~all)
  /\ shipmentMap' = d.shipments
  /\ protocolMap' = d.drug_protocols

\* TreatmentView setup() and onMounted(load)
tv_mounted(d) ==
  /\ showAll' = FALSE
  /\ graduateTarget' = null
  /\ expandedId' = null
  /\ tv_load(d, FALSE)

tv_unmounted ==
  /\ treatments' = EmptyTable
  /\ shipmentMap' = EmptyTable
  /\ protocolMap' = EmptyTable
  /\ showAll' = FALSE
  /\ graduateTarget' = null
  /\ expandedId' = null

sl_unmounted ==
  /\ invoices' = <<>>
  /\ standaloneShipments' = <<>>
  /\ treatTarget' = noTarget
  /\ treatForm' = blankTreatForm

\* DailyRounds is not mounted
dr_unmounted == cards' = EmptyTable

\* none of the views below is mounted, DailyRounds aside
\* ExcelImport data() and mounted(): the banner shows when a draft is stored
imp_mounted ==
  /\ extracted' = <<>>
  /\ createdShipments' = <<>>
  /\ hasDraft' = (fish_import_draft # <<>>)

\* ExcelImport is not mounted
imp_unmounted ==
  /\ extracted' = <<>>
  /\ createdShipments' = <<>>
  /\ hasDraft' = FALSE

\* the form of ShipmentForm as setup() makes it
blankShipmentForm ==
  [scientific_name |-> "", source |-> "Thailand", quantity |-> 10,
   aquarium_volume_liters |-> 100]

\* ShipmentForm setup(), and ShipmentForm not mounted
sf_unmounted ==
  /\ shipmentForm' = blankShipmentForm
  /\ recommendation' = <<>>

views_unmounted ==
  /\ graduateRequests' = <<>> /\ graduating' = FALSE
  /\ protocols' = <<>>
  /\ imp_unmounted /\ sf_unmounted

\* none of them is mounted, and the query of the route is empty
rest_unmounted == query' = <<>> /\ views_unmounted /\ UNCHANGED keptVars

\* none of the other views is mounted
more_unmounted == dr_unmounted /\ rest_unmounted

\* the guard lets the session in
passes(to) == beforeEach(to, fm_admin_token, now).redirect = <<>>

\* the "Treatments" tab, and the reload of the page on it
TreatmentView_mounted ==
  /\ route' = "/treatments"
  /\ treatmentId' = null
  /\ tv_mounted(db)
  /\ sl_unmounted
  /\ last' = [op |-> "TreatmentView_mounted", ok |-> TRUE,
              to |-> Location("/treatments", null), item |-> fm_admin_token]
  /\ UNCHANGED <<db, now>>
  /\ more_unmounted

\* ------------------------------------------------------ the inputs of the forms
GraduateForms ==
  [end_date : {emptyDate} \cup Dates, outcome : {"", "healthy"},
   outcome_score : {0, 5}, total_mortality : {0}, outcome_notes : {""}]

DetailsForms ==
  [aquarium_number : {""}, aquarium_volume_liters : {null, 0, 4},
   quantity : {null}, start_date : {emptyDate} \cup Dates]

\* the details form with every field typed into
AllDetailsForms ==
  [aquarium_number : {"", "B"}, aquarium_volume_liters : {null, 0, 4},
   quantity : {null, 0, 5}, start_date : {emptyDate} \cup Dates]

\* the details form with the volume and the fish count typed into
TankDetailsForms ==
  {f \in AllDetailsForms : f.aquarium_number = "" /\ f.start_date = emptyDate}

\* the sessions that have the Treatments tab open at the same time
Callers == {1, 2}

\* a session with no graduate modal open
idleCaller == [graduateTarget |-> null, graduating |-> FALSE, request |-> <<>>]

\* the graduate forms two sessions fill in differently
RaceForms ==
  {[end_date |-> 0, outcome |-> "total_loss", outcome_score |-> 1,
    total_mortality |-> 3, outcome_notes |-> "lost overnight"],
   [end_date |-> 1, outcome |-> "healthy", outcome_score |-> 5,
    total_mortality |-> 0, outcome_notes |-> ""],
   [end_date |-> 1, outcome |-> "minor_loss", outcome_score |-> 5,
    total_mortality |-> 3, outcome_notes |-> ""]}

\* the form of ShipmentForm as it is filled in
NewShipmentForms ==
  [scientific_name : {"Betta"}, source : {"Thailand", "Sri Lanka"}, quantity : {3},
   aquarium_volume_liters : {2, 4}]

\* the form of the "Edit Fish" modal
EditForms == [aquarium_number : {"", "B"}, aquarium_volume_liters : {null, 0, 4}]

TankEditForms == {f \in EditForms : f.aquarium_number = ""}

TreatForms ==
  [aquarium_number : {"", "A"}, aquarium_volume_liters : {null, 1, 2}, start_date : Dates]

ShipmentForms ==
  [quantity : {3}, aquarium_number : {""}, aquarium_volume_liters : {null, 2}]

DrugSelections == {<<>>, <<1>>, <<3>>, <<1, 2>>}

\* ------------------------------------------------------ TreatmentView: handlers
\* the buttons of the cards are reachable while no modal covers the list
cardsReachable == route = "/treatments" /\ graduateTarget = null

\* the "Show completed" checkbox: v-model="showAll" @change="load"
toggleShowAll ==
  /\ cardsReachable
  /\ showAll' = ~showAll
  /\ tv_load(db, showAll')
  /\ last' = [op |-> "toggleShowAll", ok |-> TRUE]
  /\ UNCHANGED <<db, now, route, treatmentId, graduateTarget, slVars>>
  /\ UNCHANGED moreVars
  /\ UNCHANGED expandedId

\* the "Graduate Fish" button of an active card
openGraduate(t) ==
  /\ cardsReachable
  /\ treatments[t].status = "active"
  /\ graduateTarget' = t
  /\ last' = [op |-> "openGraduate", ok |-> TRUE]
  /\ UNCHANGED <<db, now, route, treatmentId, treatments, shipmentMap, protocolMap,
                 showAll, slVars>>
  /\ UNCHANGED moreVars
  /\ UNCHANGED expandedId

\* the Cancel button and the backdrop of the graduate modal
cancelGraduate ==
  /\ route = "/treatments"
  /\ graduateTarget # null
  /\ graduateTarget' = null
  /\ last' = [op |-> "cancelGraduate", ok |-> TRUE]
  /\ UNCHANGED <<db, now, route, treatmentId, treatments, shipmentMap, protocolMap,
                 showAll, slVars>>
  /\ UNCHANGED moreVars
  /\ UNCHANGED expandedId

graduateBlocked_never(form) == FALSE

\* the early return of doGraduate
graduateBlocked(form) == FalsyText(form.outcome) \/ FalsyNum(form.outcome_score)

graduatePatch_sparse(form) ==
  LET fields == {"status", "end_date", "outcome", "outcome_score"}
                \cup (IF FalsyNum(form.total_mortality) THEN {} ELSE {"total_mortality"})
                \cup (IF FalsyText(form.outcome_notes) THEN {} ELSE {"outcome_notes"})
  IN [f \in fields |-> IF f = "status" THEN "completed" ELSE form[f]]

\* the body of the PATCH of doGraduate
graduatePatch(form) ==
  [status |-> "completed", end_date |-> form.end_date, outcome |-> form.outcome,
   outcome_score |-> form.outcome_score,
   total_mortality |-> IF FalsyNum(form.total_mortality) THEN 0 ELSE form.total_mortality,
   outcome_notes |-> IF FalsyText(form.outcome_notes) THEN nullText ELSE form.outcome_notes]

doGraduate(form, up) ==
  /\ route = "/treatments"
  /\ graduateTarget # null
  /\ LET r == IF graduateBlocked(form) THEN Failed(db)
              ELSE treatmentsAPI_update(db, up, graduateTarget, graduatePatch(form))
     IN /\ db' = r.db
        /\ last' = [op |-> "doGraduate", ok |-> r.ok, id |-> graduateTarget,
                    outcome |-> form.outcome, outcome_score |-> form.outcome_score]
        /\ IF r.ok
           THEN graduateTarget' = null /\ tv_load(r.db, showAll)
           ELSE UNCHANGED <<graduateTarget, treatments, shipmentMap, protocolMap>>
  /\ UNCHANGED <<now, route, treatmentId, showAll, slVars>>
  /\ UNCHANGED moreVars
  /\ UNCHANGED expandedId

confirmDisabled_formOnly(form) == graduateBlocked(form)

\* :disabled of "Confirm Graduation"
confirmDisabled(form) == graduating \/ graduateBlocked(form)

\* doGraduate up to its await: "Confirm Graduation" is clicked, the flag goes up and
\* the PATCH leaves
doGraduate_await(form) ==
  /\ route = "/treatments"
  /\ graduateTarget # null
  /\ ~confirmDisabled(form)
  /\ ~graduateBlocked(form)
  /\ graduating' = TRUE
  /\ graduateRequests' =
       Append(graduateRequests, [id |-> graduateTarget, body |-> graduatePatch(form)])
  /\ last' = [op |-> "doGraduate_await", ok |-> TRUE, id |-> graduateTarget]
  /\ UNCHANGED <<db, now, route, treatmentId, tvVars, slVars, offGraduate>>

\* doGraduate after its await: the PATCH is answered; then the modal closes and the
\* list is loaded, or the catch sets graduateError; finally the flag goes down
doGraduate_resume(up) ==
  /\ route = "/treatments"
  /\ graduateRequests # <<>>
  /\ LET req == Head(graduateRequests)
         r == treatmentsAPI_update(db, up, req.id, req.body)
     IN /\ db' = r.db
        /\ IF r.ok
           THEN graduateTarget' = null /\ tv_load(r.db, showAll)
           ELSE UNCHANGED <<graduateTarget, treatments, shipmentMap, protocolMap>>
        /\ last' = [op |-> "doGraduate_resume", ok |-> r.ok, id |-> req.id,
                    graduateError |-> IF r.ok THEN "" ELSE "Failed to graduate treatment."]
  /\ graduateRequests' = Tail(graduateRequests)
  /\ graduating' = FALSE
  /\ UNCHANGED <<now, route, treatmentId, showAll, expandedId, slVars, offGraduate>>

\* "Mark Complete" of the earlier revisions of the view, confirmed
complete(t, up) ==
  /\ cardsReachable
  /\ treatments[t].status = "active"
  /\ LET r == treatmentsAPI_complete(db, up, t, TODAY)
     IN /\ db' = r.db
        /\ last' = [op |-> "complete", ok |-> r.ok, id |-> t]
        /\ IF r.ok THEN tv_load(r.db, showAll)
           ELSE UNCHANGED <<treatments, shipmentMap, protocolMap>>
  /\ UNCHANGED <<now, route, treatmentId, showAll, graduateTarget, slVars>>
  /\ UNCHANGED moreVars
  /\ UNCHANGED expandedId

\* "Edit Drugs" / "Done Editing" of an active card: the drug editor of the card
\* opens or closes
toggleEdit(t) ==
  /\ cardsReachable
  /\ t \in DOMAIN treatments
  /\ treatments[t].status = "active"
  /\ expandedId' = IF expandedId = t THEN null ELSE t
  /\ last' = [op |-> "toggleEdit", ok |-> TRUE]
  /\ UNCHANGED <<db, now, route, treatmentId, treatments, shipmentMap, protocolMap,
                 showAll, graduateTarget, slVars>>
  /\ UNCHANGED moreVars

addDrug_activeOnly(t, protocol, up) ==
  /\ cardsReachable
  /\ t \in DOMAIN treatments
  /\ expandedId = t
  /\ protocol \in DOMAIN protocolMap
  /\ db.serial.treatment_drugs < MaxDrugRows
  /\ LET r == IF treatments[t].status = "active"
              THEN treatmentsAPI_addDrug(db, up, t, [drug_protocol_id |-> protocol])
              ELSE Failed(db)
     IN /\ db' = r.db
        /\ last' = [op |-> "addDrug", ok |-> r.ok, id |-> t, up |-> up,
                    drug_protocol_id |-> protocol]
        /\ IF r.ok THEN tv_load(r.db, showAll)
           ELSE UNCHANGED <<treatments, shipmentMap, protocolMap>>
  /\ UNCHANGED <<now, route, treatmentId, showAll, graduateTarget, slVars>>
  /\ UNCHANGED moreVars
  /\ UNCHANGED expandedId

\* "+ Add" of the drug editor; the editor stays open on the card it was opened on
addDrug(t, protocol, up) ==
  /\ cardsReachable
  /\ t \in DOMAIN treatments
  /\ expandedId = t
  /\ protocol \in DOMAIN protocolMap
  /\ db.serial.treatment_drugs < MaxDrugRows
  /\ LET r == treatmentsAPI_addDrug(db, up, t, [drug_protocol_id |-> protocol])
     IN /\ db' = r.db
        /\ last' = [op |-> "addDrug", ok |-> r.ok, id |-> t, up |-> up,
                    drug_protocol_id |-> protocol]
        /\ IF r.ok THEN tv_load(r.db, showAll)
           ELSE UNCHANGED <<treatments, shipmentMap, protocolMap>>
  /\ UNCHANGED <<now, route, treatmentId, showAll, graduateTarget, slVars>>
  /\ UNCHANGED moreVars
  /\ UNCHANGED expandedId

\* the remove button of the drug row at position i of the drug editor
removeDrug(t, i, up) ==
  /\ cardsReachable
  /\ t \in DOMAIN treatments
  /\ expandedId = t
  /\ i \in DOMAIN treatments[t].drugs
  /\ LET r == treatmentsAPI_removeDrug(db, up, t, treatments[t].drugs[i].id)
     IN /\ db' = r.db
        /\ last' = [op |-> "removeDrug", ok |-> r.ok, id |-> t]
        /\ IF r.ok THEN tv_load(r.db, showAll)
           ELSE UNCHANGED <<treatments, shipmentMap, protocolMap>>
  /\ UNCHANGED <<now, route, treatmentId, showAll, graduateTarget, slVars>>
  /\ UNCHANGED moreVars
  /\ UNCHANGED expandedId

detailsPatch_withInvoice(form) ==
  [f \in {"aquarium_number", "aquarium_volume_liters", "quantity", "invoice_id"} |->
     IF f = "invoice_id" THEN 1 ELSE form[f]]

\* the body of the shipment PATCH of saveDetails
detailsPatch(form) ==
  LET fields == (IF form.aquarium_number # "" THEN {"aquarium_number"} ELSE {})
                \cup (IF form.aquarium_volume_liters # null
                      THEN {"aquarium_volume_liters"} ELSE {})
                \cup (IF form.quantity # null THEN {"quantity"} ELSE {})
  IN [f \in fields |-> form[f]]

startDatePatch_reopens(form) == [start_date |-> form.start_date, status |-> "active"]

\* the body of the treatment PATCH of saveDetails
startDatePatch(form) == [start_date |-> form.start_date]

\* "Save" of the details editor, which opens on every card
saveDetails(t, form, up1, up2) ==
  /\ cardsReachable
  /\ LET r1 == shipmentsAPI_update(db, up1, treatments[t].shipment_id, detailsPatch(form))
         r2 == IF ~r1.ok THEN r1
               ELSE IF form.start_date # emptyDate
                    THEN treatmentsAPI_update(r1.db, up2, t, startDatePatch(form))
                    ELSE r1
     IN /\ db' = r2.db
        /\ last' = [op |-> "saveDetails", ok |-> r2.ok, id |-> t]
        /\ IF r2.ok THEN tv_load(r2.db, showAll)
           ELSE UNCHANGED <<treatments, shipmentMap, protocolMap>>
  /\ UNCHANGED <<now, route, treatmentId, showAll, graduateTarget, slVars>>
  /\ UNCHANGED moreVars
  /\ UNCHANGED expandedId

\* "Record Observation" of a card: the router goes to /checklist/:treatmentId
DailyChecklist_mounted(t) ==
  /\ cardsReachable
  /\ passes(Location("/checklist", t))
  /\ route' = "/checklist"
  /\ treatmentId' = t
  /\ tv_unmounted
  /\ last' = [op |-> "DailyChecklist_mounted", ok |-> TRUE,
              to |-> Location("/checklist", t), item |-> fm_admin_token]
  /\ UNCHANGED <<db, now, slVars>>
  /\ UNCHANGED moreVars

\* DailyChecklist: the computed dayNum, the start date being loaded and the
\* observation date being filled in
dayNum(startDate, observation_date) ==
  Max(1, ((DateToTicks(observation_date) - DateToTicks(startDate)) \div TicksPerDay) + 1)

\* DailyChecklist: "Save Observation"; on success the router goes to /treatments
DailyChecklist_handleSubmit(date, up) ==
  /\ route = "/checklist"
  /\ db.serial.daily_observations < MaxObservations
  /\ LET r == observationsAPI_create(db, up, [treatment_id |-> treatmentId,
                                               observation_date |-> date])
     IN /\ db' = r.db
        /\ last' = [op |-> "DailyChecklist_handleSubmit", ok |-> r.ok, id |-> treatmentId]
        /\ IF r.ok
           THEN route' = "/treatments" /\ treatmentId' = null /\ tv_mounted(r.db)
           ELSE UNCHANGED <<route, treatmentId, tvVars>>
  /\ UNCHANGED <<now, slVars>>
  /\ UNCHANGED moreVars

\* ------------------------------------------------------ DailyRounds: handlers
\* GET /api/observations/today: the observations dated today, by id
observationsAPI_getToday(d, today) ==
  LET ks == SortedSeq({k \in DOMAIN d.daily_observations :
                         d.daily_observations[k].observation_date = today})
  IN [i \in DOMAIN ks |-> d.daily_observations[ks[i]] @@ [id |-> ks[i]]]

\* todayObsByTreatment: of the observations of one treatment the last listed stays
RECURSIVE todayObsByTreatment(_)
todayObsByTreatment(list) ==
  IF list = <<>> THEN EmptyTable
  ELSE LET obs == list[Len(list)]
       IN (obs.treatment_id :> obs.id) @@ todayObsByTreatment(SubSeq(list, 1, Len(list) - 1))

dr_daysActive_unfloored(t) == ((now - DateToTicks(t.start_date)) \div TicksPerDay) + 1

\* the day count of a card: Math.max(1, Math.floor((new Date() - startDate) / day) + 1)
dr_daysActive(t) ==
  Max(1, ((now - DateToTicks(t.start_date)) \div TicksPerDay) + 1)

\* load(): one card per active treatment
dr_load(d) ==
  LET active == treatmentsAPI_list(d, TRUE)
      todayObs == todayObsByTreatment(observationsAPI_getToday(d, TODAY))
  IN cards' = [t \in DOMAIN active |->
                 [doneToday |-> t \in DOMAIN todayObs,
                  todayObs |-> IF t \in DOMAIN todayObs THEN todayObs[t] ELSE null,
                  daysActive |-> dr_daysActive(active[t])]]

\* the "Daily Rounds" tab, and the reload of the page on it
DailyRounds_mounted ==
  /\ passes(Location("/daily", null))
  /\ route' = "/daily"
  /\ treatmentId' = null
  /\ tv_unmounted
  /\ sl_unmounted
  /\ dr_load(db)
  /\ rest_unmounted
  /\ last' = [op |-> "DailyRounds_mounted", ok |-> TRUE,
              to |-> Location("/daily", null), item |-> fm_admin_token]
  /\ UNCHANGED <<db, now>>

save_completes(t, date, up) ==
  /\ route = "/daily"
  /\ t \in DOMAIN cards
  /\ ~cards[t].doneToday
  /\ date <= TODAY
  /\ db.serial.daily_observations < MaxObservations
  /\ LET r == observationsAPI_create(db, up, [treatment_id |-> t, observation_date |-> date])
     IN /\ db' = IF r.ok /\ cards[t].daysActive > 1
                 THEN [r.db EXCEPT !.treatments[t].status = "completed",
                                   !.treatments[t].end_date = TODAY]
                 ELSE r.db
        /\ last' = [op |-> "save", ok |-> r.ok, id |-> t]
        /\ cards' = IF r.ok
                    THEN [cards EXCEPT ![t].doneToday = TRUE, ![t].todayObs = r.id]
                    ELSE cards
  /\ UNCHANGED <<now, route, treatmentId, tvVars, slVars, offCards>>

\* "Save" of the card of treatment t. The form carries the TODAY of the module,
\* the date the page was loaded on: today or an earlier day.
save(t, date, up) ==
  /\ route = "/daily"
  /\ t \in DOMAIN cards
  /\ ~cards[t].doneToday
  /\ date <= TODAY
  /\ db.serial.daily_observations < MaxObservations
  /\ LET r == observationsAPI_create(db, up, [treatment_id |-> t, observation_date |-> date])
     IN /\ db' = r.db
        /\ last' = [op |-> "save", ok |-> r.ok, id |-> t]
        /\ cards' = IF r.ok
                    THEN [cards EXCEPT ![t].doneToday = TRUE, ![t].todayObs = r.id]
                    ELSE cards
  /\ UNCHANGED <<now, route, treatmentId, tvVars, slVars, offCards>>

\* "Edit observation" of the card of treatment t: the form shows again
reopen(t) ==
  /\ route = "/daily"
  /\ t \in DOMAIN cards
  /\ cards[t].doneToday
  /\ cards' = [cards EXCEPT ![t].doneToday = FALSE]
  /\ last' = [op |-> "reopen", ok |-> TRUE, id |-> t]
  /\ UNCHANGED <<db, now, route, treatmentId, tvVars, slVars, offCards>>

\* ------------------------------------------- the router, LoginView and App
\* the router arrives at dest, a location whose view loads nothing but the cards of
\* DailyRounds or the banner of ExcelImport
enter(dest) ==
  /\ route' = dest.path
  /\ treatmentId' = dest.treatmentId
  /\ query' = dest.redirect
  /\ tv_unmounted
  /\ sl_unmounted
  /\ IF dest.path = "/daily" THEN dr_load(db) ELSE dr_unmounted
  /\ IF dest.path = "/import" THEN imp_mounted ELSE imp_unmounted
  /\ sf_unmounted
  /\ protocols' = IF dest.path = "/protocols" THEN protocolsAPI_list(db) ELSE <<>>
  /\ graduating' = FALSE
  /\ graduateRequests' = <<>>

\* a navigation by a link, by the address bar or by a reload
navigate(to) ==
  /\ to.path \notin {"/treatments", "/shipments-list"}
  /\ enter(beforeEach(to, fm_admin_token, now))
  /\ last' = [op |-> "navigate", ok |-> passes(to), to |-> to, item |-> fm_admin_token]
  /\ UNCHANGED <<db, now, keptVars>>

\* LoginView: "Login"; the server answers with a token, and the router goes to the
\* redirect of the query, or home
submit(up, token) ==
  /\ route = "/login"
  /\ IF up
     THEN LET target == IF query = <<>> THEN Location("/", null) ELSE query[1]
          IN /\ fm_admin_token' = <<token>>
             /\ enter(beforeEach(target, <<token>>, now))
             /\ last' = [op |-> "submit", ok |-> TRUE, to |-> target, item |-> <<token>>]
     ELSE /\ last' = [op |-> "submit", ok |-> FALSE]
          /\ UNCHANGED <<route, treatmentId, tvVars, slVars, cards, query, fm_admin_token,
                         extracted, hasDraft, createdShipments, shipmentForm,
                         recommendation, protocols, graduating, graduateRequests>>
  /\ UNCHANGED <<db, now, callers, fish_import_draft>>

\* App: "Logout", shown to an admin
handleLogout ==
  /\ isAdmin
  /\ fm_admin_token' = <<>>
  /\ enter(beforeEach(Location("/", null), <<>>, now))
  /\ last' = [op |-> "handleLogout", ok |-> TRUE, to |-> Location("/", null), item |-> <<>>]
  /\ UNCHANGED <<db, now, callers, fish_import_draft>>

\* ------------------------------------------------------ DrugProtocols: handlers
\* "Delete" of a protocol, shown to an admin, and "Yes, Delete" of the confirmation
confirmDelete(deletingProtocol, up) ==
  /\ route = "/protocols"
  /\ isAdmin
  /\ deletingProtocol \in Range(protocols)
  /\ LET r == protocolsAPI_delete(db, up, deletingProtocol.id)
     IN /\ db' = r.db
        /\ protocols' = IF r.ok
                        THEN SelectSeq(protocols, LAMBDA p : p.id # deletingProtocol.id)
                        ELSE protocols
        /\ last' = [op |-> "confirmDelete", ok |-> r.ok, up |-> up,
                    id |-> deletingProtocol.id]
  /\ UNCHANGED <<now, route, treatmentId, tvVars, slVars, cards, callers, fm_admin_token,
                 query, fish_import_draft, extracted, hasDraft, createdShipments,
                 shipmentForm, recommendation, graduating, graduateRequests>>

\* ------------------------------------------------------ ExcelImport: handlers
\* the row "+ Add species row" pushes; of the cells, the name, the quantity and the tank
blankRow ==
  [scientific_name |-> "", quantity |-> 0, aquarium_number |-> "",
   aquarium_volume_liters |-> null]

\* the rows the extraction answers with, and the answers
ExtractedRows ==
  {[scientific_name |-> "Betta", quantity |-> 2],
   [scientific_name |-> nullText, quantity |-> null]}

Extractions ==
  [source_country : {"", "Thailand"},
   fish_species : {<<>>} \cup {<<row>> : row \in ExtractedRows}]

\* the map of extractData over the rows of the answer
normalized(rows) ==
  [i \in DOMAIN rows |->
     [scientific_name |-> IF FalsyText(rows[i].scientific_name) THEN ""
                          ELSE rows[i].scientific_name,
      quantity |-> IF FalsyNum(rows[i].quantity) THEN 0 ELSE rows[i].quantity,
      aquarium_number |-> "",
      aquarium_volume_liters |-> null]]

\* JSON.stringify and JSON.parse of the import data: texts, finite numbers and null,
\* which the text carries as they are
JSON_stringify(data) == [text |-> data]
JSON_parse(raw) == raw.text

saveDraft_unlessStored(data) ==
  IF data # <<>> /\ fish_import_draft = <<>>
  THEN fish_import_draft' = <<JSON_stringify(data[1])>> /\ hasDraft' = TRUE
  ELSE UNCHANGED <<fish_import_draft, hasDraft>>

\* saveDraft, with this.extracted as it is when it runs
saveDraft(data) ==
  IF data # <<>>
  THEN fish_import_draft' = <<JSON_stringify(data[1])>> /\ hasDraft' = TRUE
  ELSE UNCHANGED <<fish_import_draft, hasDraft>>

\* "Extract Shipment Data with AI" on the upload card, a file being selected
extractData(up, d) ==
  /\ route = "/import"
  /\ extracted = <<>>
  /\ IF up
     THEN LET data == [d EXCEPT !.fish_species = normalized(@)]
          IN extracted' = <<data>> /\ saveDraft(<<data>>)
     ELSE UNCHANGED <<extracted, fish_import_draft, hasDraft>>
  /\ last' = [op |-> "extractData", ok |-> up]
  /\ UNCHANGED <<db, now, route, treatmentId, tvVars, slVars, offImport, createdShipments>>

\* "Resume" of the banner
loadDraft ==
  /\ route = "/import"
  /\ hasDraft /\ extracted = <<>>
  /\ IF fish_import_draft # <<>>
     THEN extracted' = <<JSON_parse(fish_import_draft[1])>> /\ hasDraft' = FALSE
     ELSE UNCHANGED <<extracted, hasDraft>>
  /\ last' = [op |-> "loadDraft", ok |-> TRUE]
  /\ UNCHANGED <<db, now, route, treatmentId, tvVars, slVars, offImport, createdShipments,
                 fish_import_draft>>

\* "Discard" of the banner
clearDraft ==
  /\ route = "/import"
  /\ hasDraft /\ extracted = <<>>
  /\ fish_import_draft' = <<>>
  /\ hasDraft' = FALSE
  /\ last' = [op |-> "clearDraft", ok |-> TRUE]
  /\ UNCHANGED <<db, now, route, treatmentId, tvVars, slVars, offImport, createdShipments,
                 extracted>>

\* the import data after an edit of its rows, then saveDraft
rowsEdited(rows, op) ==
  /\ extracted' = <<[extracted[1] EXCEPT !.fish_species = rows]>>
  /\ saveDraft(extracted')
  /\ last' = [op |-> op, ok |-> TRUE]
  /\ UNCHANGED <<db, now, route, treatmentId, tvVars, slVars, offImport, createdShipments>>

\* typing into a cell of row idx
cellInput(idx, field, value) ==
  /\ route = "/import"
  /\ extracted # <<>>
  /\ idx \in DOMAIN extracted[1].fish_species
  /\ rowsEdited([extracted[1].fish_species EXCEPT ![idx][field] = value], "cellInput")

\* "+ Add species row"
addRow ==
  /\ route = "/import"
  /\ extracted # <<>>
  /\ Len(extracted[1].fish_species) < MaxRows
  /\ rowsEdited(Append(extracted[1].fish_species, blankRow), "addRow")

\* the cross of row idx: splice(idx, 1)
removeRow(idx) ==
  /\ route = "/import"
  /\ extracted # <<>>
  /\ idx \in DOMAIN extracted[1].fish_species
  /\ LET rows == extracted[1].fish_species
     IN rowsEdited([i \in 1..(Len(rows) - 1) |-> IF i < idx THEN rows[i] ELSE rows[i + 1]],
                   "removeRow")

\* typing into "Source Country *", a field of the invoice details: no saveDraft
headerInput(value) ==
  /\ route = "/import"
  /\ extracted # <<>>
  /\ extracted' = <<[extracted[1] EXCEPT !.source_country = value]>>
  /\ last' = [op |-> "headerInput", ok |-> TRUE]
  /\ UNCHANGED <<db, now, route, treatmentId, tvVars, slVars, offImport, createdShipments,
                 fish_import_draft, hasDraft>>

\* the computed canCreate
canCreate(data) ==
  /\ data.fish_species # <<>>
  /\ \A i \in DOMAIN data.fish_species :
       ~FalsyText(data.fish_species[i].scientific_name) /\ data.fish_species[i].quantity > 0
  /\ ~FalsyText(data.source_country)

\* the payload of createAllShipments for one row
importPayload(data, species) ==
  [source |-> IF FalsyText(data.source_country) THEN "Unknown" ELSE data.source_country,
   quantity |-> species.quantity,
   aquarium_number |-> species.aquarium_number,
   aquarium_volume_liters |-> IF FalsyNum(species.aquarium_volume_liters) THEN null
                              ELSE species.aquarium_volume_liters]

\* createdShipments, errors and createProgress as the loop starts, and the rows it
\* has posted
loopStart == [created |-> <<>>, errors |-> <<>>, createProgress |-> 0, posted |-> <<>>]

\* one pass of the loop for row i: the push of the try, or that of the catch
loopPass(acc, i, r) ==
  [created |-> IF r.ok THEN Append(acc.created, r.id) ELSE acc.created,
   errors |-> IF r.ok THEN acc.errors ELSE Append(acc.errors, i),
   createProgress |-> acc.createProgress + 1,
   posted |-> Append(acc.posted, i)]

RECURSIVE createLoop_stopsAtError(_, _, _, _, _)
createLoop_stopsAtError(d, data, ups, i, acc) ==
  IF i > Len(data.fish_species) THEN acc @@ [db |-> d]
  ELSE LET r == shipments_insert(d, ups[i], importPayload(data, data.fish_species[i]), null)
       IN IF r.ok THEN createLoop_stopsAtError(r.db, data, ups, i + 1, loopPass(acc, i, r))
          ELSE loopPass(acc, i, r) @@ [db |-> d]

\* the loop of createAllShipments from row i on: the database after it, with what
\* it has pushed and counted
RECURSIVE createLoop(_, _, _, _, _)
createLoop(d, data, ups, i, acc) ==
  IF i > Len(data.fish_species) THEN acc @@ [db |-> d]
  ELSE LET r == shipments_insert(d, ups[i], importPayload(data, data.fish_species[i]), null)
       IN createLoop(r.db, data, ups, i + 1, loopPass(acc, i, r))

\* "Create n Shipment(s)"; ups[i] tells whether the request of row i gets through
createAllShipments(ups) ==
  /\ route = "/import"
  /\ extracted # <<>>
  /\ canCreate(extracted[1])
  /\ db.serial.shipments + Len(extracted[1].fish_species) <= MaxShipments
  /\ LET r == createLoop(db, extracted[1], ups, 1, loopStart)
     IN /\ db' = r.db
        /\ createdShipments' = r.created
        /\ IF r.created # <<>>
           THEN fish_import_draft' = <<>> /\ hasDraft' = FALSE
           ELSE UNCHANGED <<fish_import_draft, hasDraft>>
        /\ last' = [op |-> "createAllShipments", ok |-> r.created # <<>>,
                    created |-> Len(r.created), creating |-> FALSE,
                    createProgress |-> r.createProgress, errors |-> r.errors,
                    posted |-> r.posted,
                    answers |-> SubSeq(ups, 1, Len(extracted[1].fish_species))]
  /\ UNCHANGED <<now, route, treatmentId, tvVars, slVars, offImport, extracted>>

\* "Upload Different Invoice"
startOver ==
  /\ route = "/import"
  /\ extracted # <<>>
  /\ extracted' = <<>>
  /\ createdShipments' = <<>>
  /\ fish_import_draft' = <<>>
  /\ hasDraft' = FALSE
  /\ last' = [op |-> "startOver", ok |-> TRUE]
  /\ UNCHANGED <<db, now, route, treatmentId, tvVars, slVars, offImport>>

\* ------------------------------------------------------ ShipmentsList: handlers
\* a shipment as the server returns it
fish(d, id) == d.shipments[id] @@ [id |-> id]

\* GET /api/invoices/: every invoice with its fish, nested
invoicesAPI_list(d) ==
  LET ids == SortedSeq(d.invoices)
      of(inv) == SortedSeq({k \in DOMAIN d.shipments : d.shipments[k].invoice_id = inv})
  IN [i \in DOMAIN ids |->
        [id |-> ids[i],
         shipments |-> [j \in DOMAIN of(ids[i]) |-> fish(d, of(ids[i])[j])]]]

\* GET /api/shipments/?limit=: at most limit shipments
shipmentsAPI_list(d, limit) ==
  LET ids == SelectSeq([i \in 1..d.serial.shipments |-> i],
                       LAMBDA i : i \in DOMAIN d.shipments)
      n == IF Len(ids) <= limit THEN Len(ids) ELSE limit
  IN [i \in 1..n |-> fish(d, ids[i])]

\* the ids of the fish listed under the invoices invs
RECURSIVE invoiceShipmentIds(_)
invoiceShipmentIds(invs) ==
  IF invs = <<>> THEN {}
  ELSE {f.id : f \in Range(Head(invs).shipments)} \cup invoiceShipmentIds(Tail(invs))

\* load(): upInv is false when the invoices request fails
ShipmentsList_load(d, upInv) ==
  LET invoiceData == IF upInv THEN invoicesAPI_list(d) ELSE <<>>
  IN /\ invoices' = invoiceData
     /\ standaloneShipments' =
          SelectSeq(shipmentsAPI_list(d, listLimit),
                    LAMBDA s : s.id \notin invoiceShipmentIds(invoiceData))

\* the "Shipments" tab, and the reload of the page on it: data() and mounted()
ShipmentsList_mounted(upInv) ==
  /\ route' = "/shipments-list"
  /\ treatmentId' = null
  /\ ShipmentsList_load(db, upInv)
  /\ treatTarget' = noTarget
  /\ treatForm' = blankTreatForm
  /\ tv_unmounted
  /\ last' = [op |-> "ShipmentsList_mounted", ok |-> TRUE]
  /\ UNCHANGED <<db, now>>
  /\ more_unmounted

\* the buttons of the list are reachable while no modal covers it
listReachable == route = "/shipments-list" /\ treatTarget = noTarget

doCreateInvoice(up) ==
  /\ listReachable
  /\ db.serial.invoices < MaxInvoices
  /\ LET r == invoicesAPI_create(db, up)
     IN /\ db' = r.db
        /\ last' = [op |-> "doCreateInvoice", ok |-> r.ok]
        /\ invoices' = IF r.ok THEN <<[id |-> r.id, shipments |-> <<>>]>> \o invoices
                       ELSE invoices
  /\ UNCHANGED <<now, route, treatmentId, tvVars, standaloneShipments, treatTarget, treatForm>>
  /\ UNCHANGED moreVars

\* the source of the invoices, which their fish take
invoiceSource == "Thailand"

\* "+ Add Fish" of the invoice at position i, and the submit of its form
doAddFish(i, form, up) ==
  /\ listReachable
  /\ i \in DOMAIN invoices
  /\ db.serial.shipments < MaxShipments
  /\ LET r == shipments_insert(db, up, form @@ [source |-> invoiceSource], invoices[i].id)
     IN /\ db' = r.db
        /\ last' = [op |-> "doAddFish", ok |-> r.ok]
        /\ invoices' = IF r.ok
                       THEN [invoices EXCEPT ![i].shipments = Append(@, fish(r.db, r.id))]
                       ELSE invoices
  /\ UNCHANGED <<now, route, treatmentId, tvVars, standaloneShipments, treatTarget, treatForm>>
  /\ UNCHANGED moreVars

\* the standalone list after the fish of the deleted invoice target were moved to it
freedShipments_dropped(target) == standaloneShipments

\* the standalone list once the fish of the deleted invoice are freed
freedShipments(target) == target.shipments \o standaloneShipments

\* "Delete Invoice" of the invoice at position i, confirmed
doDeleteInvoice(i, up) ==
  /\ listReachable
  /\ i \in DOMAIN invoices
  /\ LET target == invoices[i]
         r == invoicesAPI_delete(db, up, target.id)
     IN /\ db' = r.db
        /\ last' = [op |-> "doDeleteInvoice", ok |-> r.ok, id |-> target.id,
                    shipments |-> {f.id : f \in Range(target.shipments)}]
        /\ IF r.ok
           THEN /\ standaloneShipments' = freedShipments(target)
                /\ invoices' = SelectSeq(invoices, LAMBDA inv : inv.id # target.id)
           ELSE UNCHANGED <<invoices, standaloneShipments>>
  /\ UNCHANGED <<now, route, treatmentId, tvVars, treatTarget, treatForm>>
  /\ UNCHANGED moreVars

\* the fish the view shows, under an invoice or standalone
shownFish ==
  Range(standaloneShipments) \cup
  UNION {Range(invoices[i].shipments) : i \in DOMAIN invoices}

\* "Delete" of a fish, confirmed
doDelete(target, up) ==
  /\ listReachable
  /\ target \in shownFish
  /\ LET r == shipmentsAPI_delete(db, up, target.id)
         ts == {t \in DOMAIN db.treatments : db.treatments[t].shipment_id = target.id}
         of(table) == {k \in DOMAIN table : table[k].treatment_id \in ts}
     IN /\ db' = r.db
        /\ last' = [op |-> "doDelete", ok |-> r.ok, id |-> target.id, treatments |-> ts,
                    treatment_drugs |-> of(db.treatment_drugs),
                    daily_observations |-> of(db.daily_observations),
                    followup_assessments |-> of(db.followup_assessments)]
        /\ IF r.ok
           THEN /\ invoices' =
                     [i \in DOMAIN invoices |->
                        [invoices[i] EXCEPT
                           !.shipments = SelectSeq(@, LAMBDA f : f.id # target.id)]]
                /\ standaloneShipments' =
                     SelectSeq(standaloneShipments, LAMBDA f : f.id # target.id)
           ELSE UNCHANGED <<invoices, standaloneShipments>>
  /\ UNCHANGED <<now, route, treatmentId, tvVars, treatTarget, treatForm>>
  /\ UNCHANGED moreVars

\* the body of the PATCH of doEdit: the entries of editForm that are filled in (of
\* its fields, the tank)
editPatch(form) ==
  LET fields == (IF form.aquarium_number # "" THEN {"aquarium_number"} ELSE {})
                \cup (IF form.aquarium_volume_liters # null
                      THEN {"aquarium_volume_liters"} ELSE {})
  IN [f \in fields |-> form[f]]

\* "Edit" of a fish and "Save Changes" of its modal; on success the patch is
\* assigned to the fish of the lists
doEdit(target, form, up) ==
  /\ listReachable
  /\ target \in shownFish
  /\ LET patch == editPatch(form)
         r == shipmentsAPI_update(db, up, target.id, patch)
         assigned(list) ==
           [j \in DOMAIN list |->
              IF list[j].id = target.id THEN Merge(list[j], patch) ELSE list[j]]
     IN /\ db' = r.db
        /\ last' = [op |-> "doEdit", ok |-> r.ok, id |-> target.id, patch |-> patch]
        /\ IF r.ok
           THEN /\ invoices' =
                     [i \in DOMAIN invoices |->
                        [invoices[i] EXCEPT !.shipments = assigned(@)]]
                /\ standaloneShipments' = assigned(standaloneShipments)
           ELSE UNCHANGED <<invoices, standaloneShipments>>
  /\ UNCHANGED <<now, route, treatmentId, tvVars, treatTarget, treatForm>>
  /\ UNCHANGED moreVars

\* "Treat" / "Start Treatment" of a fish: the modal opens with the form prefilled
openTreatModal(target) ==
  /\ listReachable
  /\ target \in shownFish
  /\ treatTarget' = target
  /\ treatForm' =
       [aquarium_number |-> IF FalsyText(target.aquarium_number) THEN ""
                            ELSE target.aquarium_number,
        aquarium_volume_liters |-> IF target.aquarium_volume_liters > 1
                                   THEN target.aquarium_volume_liters ELSE null,
        start_date |-> TODAY]
  /\ last' = [op |-> "openTreatModal", ok |-> TRUE]
  /\ UNCHANGED <<db, now, route, treatmentId, tvVars, invoices, standaloneShipments>>
  /\ UNCHANGED moreVars

\* typing into the inputs of the start-treatment modal (v-model)
inputTreatForm(form) ==
  /\ route = "/shipments-list"
  /\ treatTarget # noTarget
  /\ treatForm' = form
  /\ last' = [op |-> "inputTreatForm", ok |-> TRUE]
  /\ UNCHANGED <<db, now, route, treatmentId, tvVars, invoices, standaloneShipments,
                 treatTarget>>
  /\ UNCHANGED moreVars

closeTreatModal ==
  /\ route = "/shipments-list"
  /\ treatTarget # noTarget
  /\ treatTarget' = noTarget
  /\ last' = [op |-> "closeTreatModal", ok |-> TRUE]
  /\ UNCHANGED <<db, now, route, treatmentId, tvVars, invoices, standaloneShipments,
                 treatForm>>
  /\ UNCHANGED moreVars

\* the density hint of the start-treatment modal: null when it is not rendered
densityHint ==
  IF treatTarget # noTarget /\ treatForm.aquarium_volume_liters > 0
  THEN toFixed2(treatTarget.quantity, treatForm.aquarium_volume_liters)
  ELSE null

startBlocked_volumeOnly(form) == FalsyNum(form.aquarium_volume_liters)

\* the early return of doStartTreatment
startBlocked(form) ==
  FalsyText(form.aquarium_number) \/ FalsyNum(form.aquarium_volume_liters)

\* the body of the shipment PATCH of doStartTreatment
tankPatch(form) ==
  [aquarium_number |-> form.aquarium_number,
   aquarium_volume_liters |-> form.aquarium_volume_liters]

doStartTreatment_createAnyway(selectedProtocols, up1, up2) ==
  /\ route = "/shipments-list"
  /\ treatTarget # noTarget
  /\ db.serial.treatments < MaxTreatments
  /\ db.serial.treatment_drugs + Len(selectedProtocols) <= MaxDrugRows
  /\ LET r1 == IF startBlocked(treatForm) THEN Failed(db)
               ELSE shipmentsAPI_update(db, up1, treatTarget.id, tankPatch(treatForm))
         r2 == treatmentsAPI_create(r1.db, up2,
                 [shipment_id |-> treatTarget.id, start_date |-> treatForm.start_date,
                  drugs |-> selectedProtocols])
     IN /\ db' = r2.db
        /\ last' = [op |-> "doStartTreatment", ok |-> r2.ok, id |-> treatTarget.id,
                    form |-> treatForm]
        /\ IF r2.ok
           THEN route' = "/treatments" /\ tv_mounted(r2.db) /\ sl_unmounted
           ELSE UNCHANGED <<route, tvVars, slVars>>
  /\ UNCHANGED <<now, treatmentId>>
  /\ UNCHANGED moreVars

\* "Start Treatment" of the modal; on success the modal closes and the router
\* goes to /treatments
doStartTreatment(selectedProtocols, up1, up2) ==
  /\ route = "/shipments-list"
  /\ treatTarget # noTarget
  /\ db.serial.treatments < MaxTreatments
  /\ db.serial.treatment_drugs + Len(selectedProtocols) <= MaxDrugRows
  /\ LET r1 == IF startBlocked(treatForm) THEN Failed(db)
               ELSE shipmentsAPI_update(db, up1, treatTarget.id, tankPatch(treatForm))
         r2 == IF ~r1.ok THEN r1
               ELSE treatmentsAPI_create(r1.db, up2,
                      [shipment_id |-> treatTarget.id, start_date |-> treatForm.start_date,
                       drugs |-> selectedProtocols])
     IN /\ db' = r2.db
        /\ last' = [op |-> "doStartTreatment", ok |-> r2.ok, id |-> treatTarget.id,
                    form |-> treatForm]
        /\ IF r2.ok
           THEN route' = "/treatments" /\ tv_mounted(r2.db) /\ sl_unmounted
           ELSE UNCHANGED <<route, tvVars, slVars>>
  /\ UNCHANGED <<now, treatmentId>>
  /\ UNCHANGED moreVars

\* ------------------------------------------------------ the other callers
\* ShipmentForm, the "New Shipment" route
ShipmentForm_mounted ==
  /\ passes(Location("/shipments", null))
  /\ route' = "/shipments"
  /\ treatmentId' = null
  /\ tv_unmounted
  /\ sl_unmounted
  /\ last' = [op |-> "ShipmentForm_mounted", ok |-> TRUE,
              to |-> Location("/shipments", null), item |-> fm_admin_token]
  /\ UNCHANGED <<db, now>>
  /\ more_unmounted

\* ShipmentForm: the fields are filled in
formInput(f) ==
  /\ route = "/shipments"
  /\ shipmentForm' = f
  /\ last' = [op |-> "formInput", ok |-> TRUE]
  /\ UNCHANGED <<db, now, route, treatmentId, tvVars, slVars, offForm, recommendation>>

\* the rows of ai_knowledge the advisor can find for a species and a source: none,
\* or one with its success_rate and sample_size
Knowledge ==
  {<<>>} \cup {<<[success_rate |-> rate, sample_size |-> n]>> :
                 rate \in {null, 0, 92}, n \in {0, 5}}

\* GET /api/recommendations/pre-shipment: without a sample the generic answer, with
\* one the tier, the rate and the advice
recommendationsAPI_preShipment(up, k, tier) ==
  IF ~up THEN [ok |-> FALSE, data |-> <<>>]
  ELSE IF k = <<>> \/ k[1].sample_size = 0
  THEN [ok |-> TRUE,
        data |-> <<[confidence |-> "low", success_rate |-> null,
                    recommendation |-> "no historical data"]>>]
  ELSE [ok |-> TRUE,
        data |-> <<[confidence |-> tier, success_rate |-> k[1].success_rate,
                    recommendation |-> "protocol"]>>]

successRateShown_always(rec) == TRUE

\* the recommendation box: v-if="recommendation.success_rate" of the "Success Rate" line
successRateShown(rec) == ~FalsyNum(rec.success_rate)

getRecommendation_resets(up, k, tier) ==
  /\ route = "/shipments"
  /\ LET res == recommendationsAPI_preShipment(up, k, tier)
     IN /\ recommendation' = IF res.ok THEN res.data ELSE recommendation
        /\ shipmentForm' = IF res.ok THEN shipmentForm ELSE blankShipmentForm
        /\ last' = [op |-> "getRecommendation", ok |-> res.ok, k |-> k]
  /\ UNCHANGED <<db, now, route, treatmentId, tvVars, slVars, offForm>>

\* ShipmentForm: "Get AI Advice"; a failure is an alert
getRecommendation(up, k, tier) ==
  /\ route = "/shipments"
  /\ LET res == recommendationsAPI_preShipment(up, k, tier)
     IN /\ recommendation' = IF res.ok THEN res.data ELSE recommendation
        /\ last' = [op |-> "getRecommendation", ok |-> res.ok, k |-> k]
  /\ UNCHANGED <<db, now, route, treatmentId, tvVars, slVars, offForm, shipmentForm>>

\* ShipmentForm: "Create Shipment", the required fields being filled in with numbers
\* of at least min="1"; on success
\* the router goes to the Dashboard
handleSubmit(up) ==
  /\ route = "/shipments"
  /\ shipmentForm.scientific_name # ""
  /\ shipmentForm.quantity >= 1 /\ shipmentForm.aquarium_volume_liters >= 1
  /\ db.serial.shipments < MaxShipments
  /\ LET r == shipments_insert(db, up, [source |-> shipmentForm.source,
                                        quantity |-> shipmentForm.quantity,
                                        aquarium_number |-> "",
                                        aquarium_volume_liters |->
                                          shipmentForm.aquarium_volume_liters], null)
     IN /\ db' = r.db
        /\ last' = [op |-> "handleSubmit", ok |-> r.ok, up |-> up, id |-> r.id,
                    recommendation |-> recommendation]
        /\ route' = IF r.ok THEN "/" ELSE route
        /\ IF r.ok THEN sf_unmounted ELSE UNCHANGED <<shipmentForm, recommendation>>
  /\ UNCHANGED <<now, treatmentId, tvVars, slVars, offForm>>

\* a follow-up assessment of a treatment, posted to /api/followups/ (no view does)
followupsAPI_createCall(t, rate, up) ==
  /\ t \in DOMAIN db.treatments
  /\ db.serial.followup_assessments < MaxFollowups
  /\ LET r == followupsAPI_create(db, up, [treatment_id |-> t, followup_date |-> TODAY,
                                           success_rate |-> rate])
     IN db' = r.db /\ last' = [op |-> "followupsAPI_create", ok |-> r.ok, id |-> t]
  /\ UNCHANGED <<now, route, treatmentId, tvVars, slVars>>
  /\ UNCHANGED moreVars

\* time passes
Tick ==
  /\ now < MaxTick
  /\ now' = now + 1
  /\ last' = [op |-> "Tick", ok |-> TRUE]
  /\ UNCHANGED <<db, route, treatmentId, tvVars, slVars>>
  /\ UNCHANGED moreVars

\* ------------------------------------------------------ the specifications
\* the answers to the two requests a handler awaits one after the other: the second
\* is sent only when the first succeeded
Answers == {<<TRUE, TRUE>>, <<TRUE, FALSE>>, <<FALSE, FALSE>>}

\* Init: an empty database, the session on the home page
Init ==
  /\ db = db_empty
  /\ now = 0
  /\ route = "/"
  /\ treatmentId = null
  /\ treatments = EmptyTable
  /\ shipmentMap = EmptyTable
  /\ protocolMap = EmptyTable
  /\ showAll = FALSE
  /\ graduateTarget = null
  /\ expandedId = null
  /\ invoices = <<>>
  /\ standaloneShipments = <<>>
  /\ treatTarget = noTarget
  /\ treatForm = blankTreatForm
  /\ cards = EmptyTable
  /\ callers = [c \in Callers |-> idleCaller]
  /\ fm_admin_token = <<adminToken>>
  /\ query = <<>>
  /\ fish_import_draft = <<>>
  /\ extracted = <<>>
  /\ hasDraft = FALSE
  /\ createdShipments = <<>>
  /\ shipmentForm = blankShipmentForm
  /\ recommendation = <<>>
  /\ protocols = <<>>
  /\ graduating = FALSE
  /\ graduateRequests = <<>>
  /\ last = [op |-> "init", ok |-> TRUE]

\* the shipments list: invoices, fish, the start of a treatment, and the rows
\* that hang off a treatment
Next ==
  \/ \E upInv \in BOOLEAN : ShipmentsList_mounted(upInv)
  \/ \E up \in BOOLEAN : doCreateInvoice(up)
  \/ \E i \in 1..MaxInvoices, form \in ShipmentForms, up \in BOOLEAN : doAddFish(i, form, up)
  \/ \E i \in 1..MaxInvoices, up \in BOOLEAN : doDeleteInvoice(i, up)
  \/ \E target \in shownFish, up \in BOOLEAN : doDelete(target, up)
  \/ \E target \in shownFish : openTreatModal(target)
  \/ \E form \in {f \in TreatForms : f.start_date = TODAY} : inputTreatForm(form)
  \/ closeTreatModal
  \/ \E sel \in DrugSelections, up \in Answers : doStartTreatment(sel, up[1], up[2])
  \/ ShipmentForm_mounted
  \/ \E f \in NewShipmentForms : formInput(f)
  \/ \E up \in BOOLEAN : handleSubmit(up)
  \/ \E t \in DOMAIN treatments : DailyChecklist_mounted(t)
  \/ \E up \in BOOLEAN : DailyChecklist_handleSubmit(TODAY, up)
  \/ \E t \in DOMAIN db.treatments, up \in BOOLEAN : followupsAPI_createCall(t, null, up)

Spec == Init /\ [][Next]_vars

\* the treatment lifecycle of one shipment that was created with its tank set,
\* from the shipments list that shows it
seededShipment ==
  [source |-> "Thailand", quantity |-> 3, aquarium_number |-> "A",
   aquarium_volume_liters |-> 2, invoice_id |-> null]

InitLifecycle ==
  /\ db = [db_empty EXCEPT !.shipments = (1 :> seededShipment), !.serial.shipments = 1]
  /\ now = 0
  /\ route = "/shipments-list"
  /\ treatmentId = null
  /\ treatments = EmptyTable
  /\ shipmentMap = EmptyTable
  /\ protocolMap = EmptyTable
  /\ showAll = FALSE
  /\ graduateTarget = null
  /\ expandedId = null
  /\ invoices = <<>>
  /\ standaloneShipments = <<fish(db, 1)>>
  /\ treatTarget = noTarget
  /\ treatForm = blankTreatForm
  /\ cards = EmptyTable
  /\ callers = [c \in Callers |-> idleCaller]
  /\ fm_admin_token = <<adminToken>>
  /\ query = <<>>
  /\ fish_import_draft = <<>>
  /\ extracted = <<>>
  /\ hasDraft = FALSE
  /\ createdShipments = <<>>
  /\ shipmentForm = blankShipmentForm
  /\ recommendation = <<>>
  /\ protocols = <<>>
  /\ graduating = FALSE
  /\ graduateRequests = <<>>
  /\ last = [op |-> "init", ok |-> TRUE]

NextLifecycle ==
  \/ \E target \in shownFish : openTreatModal(target)
  \/ \E sel \in {<<>>, <<1>>}, up \in Answers : doStartTreatment(sel, up[1], up[2])
  \/ TreatmentView_mounted
  \/ toggleShowAll
  \/ \E t \in DOMAIN treatments : openGraduate(t)
  \/ cancelGraduate
  \/ \E form \in GraduateForms, up \in BOOLEAN : doGraduate(form, up)
  \/ \E t \in DOMAIN treatments, up \in BOOLEAN : complete(t, up)
  \/ \E t \in DOMAIN treatments : toggleEdit(t)
  \/ \E t \in DOMAIN treatments, up \in BOOLEAN : addDrug(t, 2, up)
  \/ \E t \in DOMAIN treatments, i \in 1..MaxDrugRows, up \in BOOLEAN : removeDrug(t, i, up)
  \/ \E t \in DOMAIN treatments, form \in DetailsForms, up \in Answers :
        saveDetails(t, form, up[1], up[2])
  \/ \E t \in DOMAIN treatments : DailyChecklist_mounted(t)
  \/ \E date \in {d \in Dates : d <= TODAY}, up \in BOOLEAN :
        DailyChecklist_handleSubmit(date, up)

SpecLifecycle == InitLifecycle /\ [][NextLifecycle]_vars

\* the same shipment as the days go by: every request is answered, the drugs and
\* the dates of the treatment vary
NextDays ==
  \/ \E target \in shownFish : openTreatModal(target)
  \/ \E sel \in DrugSelections : doStartTreatment(sel, TRUE, TRUE)
  \/ toggleShowAll
  \/ \E t \in DOMAIN treatments : openGraduate(t)
  \/ \E form \in GraduateForms : doGraduate(form, TRUE)
  \/ \E t \in DOMAIN treatments : toggleEdit(t)
  \/ \E t \in DOMAIN treatments, p \in DOMAIN protocolMap : addDrug(t, p, TRUE)
  \/ \E t \in DOMAIN treatments, i \in 1..MaxDrugRows : removeDrug(t, i, TRUE)
  \/ \E t \in DOMAIN treatments, form \in {f \in DetailsForms : f.aquarium_volume_liters = null} :
        saveDetails(t, form, TRUE, TRUE)
  \/ Tick

SpecDays == InitLifecycle /\ [][NextDays]_vars

\* the start-treatment modal of that shipment, with everything that can be typed
\* into it
NextStart ==
  \/ \E upInv \in BOOLEAN : ShipmentsList_mounted(upInv)
  \/ \E target \in shownFish : openTreatModal(target)
  \/ \E form \in TreatForms : inputTreatForm(form)
  \/ closeTreatModal
  \/ \E sel \in DrugSelections, up \in Answers : doStartTreatment(sel, up[1], up[2])

SpecStart == InitLifecycle /\ [][NextStart]_vars

\* that shipment with the rows that hang off its treatment, and its deletion
NextCascade ==
  \/ \E upInv \in BOOLEAN : ShipmentsList_mounted(upInv)
  \/ \E target \in shownFish : openTreatModal(target)
  \/ \E sel \in DrugSelections, up \in Answers : doStartTreatment(sel, up[1], up[2])
  \/ TreatmentView_mounted
  \/ \E t \in DOMAIN treatments : toggleEdit(t)
  \/ \E t \in DOMAIN treatments, p \in DOMAIN protocolMap, up \in BOOLEAN : addDrug(t, p, up)
  \/ \E t \in DOMAIN treatments : DailyChecklist_mounted(t)
  \/ \E up \in BOOLEAN : DailyChecklist_handleSubmit(TODAY, up)
  \/ \E t \in DOMAIN db.treatments, up \in BOOLEAN : followupsAPI_createCall(t, null, up)
  \/ \E target \in shownFish, up \in BOOLEAN : doDelete(target, up)

SpecCascade == InitLifecycle /\ [][NextCascade]_vars

\* invoices and their fish, from an empty database: fish are added under an
\* invoice, put under treatment, and the invoice is deleted
NextInvoices ==
  \/ \E upInv \in BOOLEAN : ShipmentsList_mounted(upInv)
  \/ \E up \in BOOLEAN : doCreateInvoice(up)
  \/ \E i \in 1..MaxInvoices, form \in ShipmentForms, up \in BOOLEAN : doAddFish(i, form, up)
  \/ \E i \in 1..MaxInvoices, up \in BOOLEAN : doDeleteInvoice(i, up)
  \/ \E target \in shownFish : openTreatModal(target)
  \/ \E form \in {f \in TreatForms : ~startBlocked(f) /\ f.start_date = TODAY} :
        inputTreatForm(form)
  \/ doStartTreatment(<<>>, TRUE, TRUE)

SpecInvoices == Init /\ [][NextInvoices]_vars

\* the daily work on the treatment of that shipment as the days go by: rounds,
\* checklists and the graduation; every request is answered
NextRounds ==
  \/ \E target \in shownFish : openTreatModal(target)
  \/ \E sel \in {<<>>, <<1>>} : doStartTreatment(sel, TRUE, TRUE)
  \/ TreatmentView_mounted
  \/ \E t \in DOMAIN treatments : openGraduate(t)
  \/ \E form \in {f \in GraduateForms : ~graduateBlocked(f) /\ f.end_date = TODAY} :
        doGraduate(form, TRUE)
  \/ \E t \in DOMAIN treatments : DailyChecklist_mounted(t)
  \/ \E date \in {d \in Dates : d <= TODAY}, up \in BOOLEAN :
        DailyChecklist_handleSubmit(date, up)
  \/ DailyRounds_mounted
  \/ \E t \in DOMAIN cards, date \in Dates, up \in BOOLEAN : save(t, date, up)
  \/ \E t \in DOMAIN cards : reopen(t)
  \/ Tick

SpecRounds == InitLifecycle /\ [][NextRounds]_vars

\* the drug editor of the treatment of that shipment, before and after the
\* graduation
NextDrugs ==
  \/ \E target \in shownFish : openTreatModal(target)
  \/ \E sel \in {<<>>, <<1>>} : doStartTreatment(sel, TRUE, TRUE)
  \/ TreatmentView_mounted
  \/ toggleShowAll
  \/ \E t \in DOMAIN treatments : toggleEdit(t)
  \/ \E t \in DOMAIN treatments : openGraduate(t)
  \/ \E form \in {f \in GraduateForms : ~graduateBlocked(f) /\ f.end_date = TODAY} :
        doGraduate(form, TRUE)
  \/ \E t \in DOMAIN treatments, p \in {1, 2}, up \in BOOLEAN : addDrug(t, p, up)
  \/ \E t \in DOMAIN treatments, i \in 1..MaxDrugRows, up \in BOOLEAN : removeDrug(t, i, up)

SpecDrugs == InitLifecycle /\ [][NextDrugs]_vars

\* ------------------------------------------- TreatmentView in other sessions
\* "Graduate Fish" on a card, shown while the treatment is active
caller_openGraduate(c, t) ==
  /\ callers[c].graduateTarget = null
  /\ t \in DOMAIN db.treatments
  /\ db.treatments[t].status = "active"
  /\ callers' = [callers EXCEPT ![c].graduateTarget = t]
  /\ last' = [op |-> "caller_openGraduate", ok |-> TRUE, id |-> t, caller |-> c]
  /\ UNCHANGED <<db, now, route, treatmentId, tvVars, slVars, hereVars>>

\* doGraduate up to its await: the early return, then the PATCH leaves
caller_doGraduate(c, form) ==
  /\ callers[c].graduateTarget # null
  /\ ~callers[c].graduating
  /\ ~graduateBlocked(form)
  /\ callers' = [callers EXCEPT
                   ![c].graduating = TRUE,
                   ![c].request = <<[id |-> callers[c].graduateTarget, form |-> form,
                                     body |-> graduatePatch(form)]>>]
  /\ last' = [op |-> "caller_doGraduate", ok |-> TRUE, id |-> callers[c].graduateTarget,
              caller |-> c]
  /\ UNCHANGED <<db, now, route, treatmentId, tvVars, slVars, hereVars>>

\* the PATCH of a session is served, and doGraduate resumes after its await
caller_served(c, up) ==
  /\ callers[c].request # <<>>
  /\ LET req == callers[c].request[1]
         r == treatmentsAPI_update(db, up, req.id, req.body)
     IN /\ db' = r.db
        /\ callers' = [callers EXCEPT
                         ![c].graduateTarget = IF r.ok THEN null ELSE @,
                         ![c].graduating = FALSE,
                         ![c].request = <<>>]
        /\ last' = [op |-> "caller_served", ok |-> r.ok, id |-> req.id, caller |-> c,
                    form |-> req.form, was |-> db.treatments[req.id]]
  /\ UNCHANGED <<now, route, treatmentId, tvVars, slVars, hereVars>>

\* the session logs in and out and goes from route to route while the clock runs
NextGuard ==
  \/ \E to \in Locations : navigate(to)
  \/ TreatmentView_mounted
  \/ DailyRounds_mounted
  \/ ShipmentForm_mounted
  \/ \E up \in BOOLEAN, token \in Tokens : submit(up, token)
  \/ handleLogout
  \/ Tick

SpecGuard == Init /\ [][NextGuard]_vars

\* that shipment put under treatment, follow-ups of the treatment, and shipments of
\* other sources
NextSuppliers ==
  \/ \E target \in shownFish : openTreatModal(target)
  \/ doStartTreatment(<<>>, TRUE, TRUE)
  \/ ShipmentForm_mounted
  \/ \E f \in NewShipmentForms : formInput(f)
  \/ handleSubmit(TRUE)
  \/ \E t \in DOMAIN db.treatments, rate \in {null, 0, 100} :
        followupsAPI_createCall(t, rate, TRUE)

SpecSuppliers == InitLifecycle /\ [][NextSuppliers]_vars

\* the new shipment form and the advisor
NextAdvice ==
  \/ ShipmentForm_mounted
  \/ \E f \in NewShipmentForms : formInput(f)
  \/ \E up \in BOOLEAN, k \in Knowledge, tier \in {"low", "medium", "high"} :
        getRecommendation(up, k, tier)
  \/ \E up \in BOOLEAN : handleSubmit(up)

SpecAdvice == Init /\ [][NextAdvice]_vars

\* an import, left and resumed
NextImport ==
  \/ \E to \in {Location("/import", null), Location("/", null)} : navigate(to)
  \/ \E up \in BOOLEAN, d \in Extractions : extractData(up, d)
  \/ loadDraft
  \/ clearDraft
  \/ \E idx \in 1..MaxRows, value \in {"", "Betta"} : cellInput(idx, "scientific_name", value)
  \/ \E idx \in 1..MaxRows, value \in {0, 2} : cellInput(idx, "quantity", value)
  \/ addRow
  \/ \E idx \in 1..MaxRows : removeRow(idx)
  \/ \E value \in {"", "Thailand"} : headerInput(value)
  \/ \E ups \in [1..MaxRows -> BOOLEAN] : createAllShipments(ups)
  \/ startOver

SpecImport == Init /\ [][NextImport]_vars

\* one treatment, and two sessions graduating it
NextRace ==
  \/ \E target \in shownFish : openTreatModal(target)
  \/ \E sel \in {<<>>, <<1>>} : doStartTreatment(sel, TRUE, TRUE)
  \/ \E c \in Callers, t \in DOMAIN db.treatments : caller_openGraduate(c, t)
  \/ \E c \in Callers, form \in RaceForms : caller_doGraduate(c, form)
  \/ \E c \in Callers, up \in BOOLEAN : caller_served(c, up)

SpecRace == InitLifecycle /\ [][NextRace]_vars

\* the details editor of the treatment of that shipment, before and after the
\* graduation
NextDetails ==
  \/ \E target \in shownFish : openTreatModal(target)
  \/ \E sel \in {<<>>, <<1>>} : doStartTreatment(sel, TRUE, TRUE)
  \/ toggleShowAll
  \/ \E t \in DOMAIN treatments : openGraduate(t)
  \/ \E form \in {f \in GraduateForms : ~graduateBlocked(f) /\ f.end_date = TODAY} :
        doGraduate(form, TRUE)
  \/ \E t \in DOMAIN treatments, form \in AllDetailsForms, up \in Answers :
        saveDetails(t, form, up[1], up[2])

SpecDetails == InitLifecycle /\ [][NextDetails]_vars

\* every way a shipment is stored or edited: the form, the import, "Edit Fish"
\* and the details editor of its treatment
NextShipments ==
  \/ ShipmentsList_mounted(TRUE)
  \/ \E target \in shownFish, form \in TankEditForms, up \in BOOLEAN :
        doEdit(target, form, up)
  \/ \E target \in shownFish : openTreatModal(target)
  \/ doStartTreatment(<<>>, TRUE, TRUE)
  \/ \E t \in DOMAIN treatments, form \in TankDetailsForms, up \in BOOLEAN :
        saveDetails(t, form, up, up)
  \/ ShipmentForm_mounted
  \/ \E f \in [scientific_name : {"Betta"}, source : {"Thailand"}, quantity : {0, 3},
               aquarium_volume_liters : {2}] : formInput(f)
  \/ handleSubmit(TRUE)
  \/ navigate(Location("/import", null))
  \/ \E d \in {e \in Extractions : e.source_country # "" /\ canCreate(e)} :
        extractData(TRUE, d)
  \/ \E idx \in 1..MaxRows, value \in {0, 4} :
        cellInput(idx, "aquarium_volume_liters", value)
  \/ \E ups \in [1..MaxRows -> BOOLEAN] : createAllShipments(ups)

SpecShipments == InitLifecycle /\ [][NextShipments]_vars

\* the protocols page, and the treatment of that shipment with its drugs
NextProtocols ==
  \/ \E target \in shownFish : openTreatModal(target)
  \/ \E sel \in DrugSelections : doStartTreatment(sel, TRUE, TRUE)
  \/ TreatmentView_mounted
  \/ \E t \in DOMAIN treatments : toggleEdit(t)
  \/ \E t \in DOMAIN treatments, i \in 1..MaxDrugRows : removeDrug(t, i, TRUE)
  \/ navigate(Location("/protocols", null))
  \/ \E p \in Range(protocols), up \in BOOLEAN : confirmDelete(p, up)

SpecProtocols == InitLifecycle /\ [][NextProtocols]_vars

\* the day counts of the treatment of that shipment as the days go by, its start
\* date being set at the start and in the details editor
NextDayNumber ==
  \/ \E target \in shownFish : openTreatModal(target)
  \/ \E form \in {f \in TreatForms : ~startBlocked(f)} : inputTreatForm(form)
  \/ doStartTreatment(<<>>, TRUE, TRUE)
  \/ TreatmentView_mounted
  \/ \E t \in DOMAIN treatments, form \in {f \in DetailsForms : f.aquarium_volume_liters = null} :
        saveDetails(t, form, TRUE, TRUE)
  \/ \E t \in DOMAIN treatments : openGraduate(t)
  \/ \E form \in {f \in GraduateForms : ~graduateBlocked(f)} : doGraduate(form, TRUE)
  \/ DailyRounds_mounted
  \/ Tick

SpecDayNumber == InitLifecycle /\ [][NextDayNumber]_vars

\* shipments created without a tank, and the start of their treatment
NextTank ==
  \/ ShipmentForm_mounted
  \/ \E f \in {g \in NewShipmentForms : g.source = "Thailand" /\ g.aquarium_volume_liters = 2} :
        formInput(f)
  \/ handleSubmit(TRUE)
  \/ ShipmentsList_mounted(TRUE)
  \/ \E target \in shownFish : openTreatModal(target)
  \/ \E form \in {f \in TreatForms : f.start_date = TODAY /\ f.aquarium_volume_liters # 2} :
        inputTreatForm(form)
  \/ closeTreatModal
  \/ \E up \in Answers : doStartTreatment(<<>>, up[1], up[2])

SpecTank == Init /\ [][NextTank]_vars

\* the graduate modal of the treatment of that shipment, its request in flight
NextGraduate ==
  \/ \E target \in shownFish : openTreatModal(target)
  \/ \E sel \in {<<>>, <<1>>} : doStartTreatment(sel, TRUE, TRUE)
  \/ toggleShowAll
  \/ \E t \in DOMAIN treatments : toggleEdit(t)
  \/ \E t \in DOMAIN treatments : openGraduate(t)
  \/ cancelGraduate
  \/ \E form \in GraduateForms : doGraduate_await(form)
  \/ \E up \in BOOLEAN : doGraduate_resume(up)

SpecGraduate == InitLifecycle /\ [][NextGraduate]_vars

\* a long list: more shipments than one request of the list returns, the first
\* fish of them under an invoice; the list is loaded, fish at both ends of it are
\* deleted and the invoice is deleted
InitLongList ==
  /\ \E k \in 0..MaxShipments :
       db = [db_empty EXCEPT
               !.invoices = {1}, !.serial.invoices = 1,
               !.shipments = [s \in 1..(listLimit + 1) |->
                                [seededShipment EXCEPT
                                   !.invoice_id = IF s <= k THEN 1 ELSE null]],
               !.serial.shipments = listLimit + 1]
  /\ now = 0
  /\ route = "/"
  /\ treatmentId = null
  /\ treatments = EmptyTable
  /\ shipmentMap = EmptyTable
  /\ protocolMap = EmptyTable
  /\ showAll = FALSE
  /\ graduateTarget = null
  /\ expandedId = null
  /\ invoices = <<>>
  /\ standaloneShipments = <<>>
  /\ treatTarget = noTarget
  /\ treatForm = blankTreatForm
  /\ cards = EmptyTable
  /\ callers = [c \in Callers |-> idleCaller]
  /\ fm_admin_token = <<adminToken>>
  /\ query = <<>>
  /\ fish_import_draft = <<>>
  /\ extracted = <<>>
  /\ hasDraft = FALSE
  /\ createdShipments = <<>>
  /\ shipmentForm = blankShipmentForm
  /\ recommendation = <<>>
  /\ protocols = <<>>
  /\ graduating = FALSE
  /\ graduateRequests = <<>>
  /\ last = [op |-> "init", ok |-> TRUE]

NextLongList ==
  \/ \E upInv \in BOOLEAN : ShipmentsList_mounted(upInv)
  \/ \E i \in 1..MaxInvoices, up \in BOOLEAN : doDeleteInvoice(i, up)
  \/ \E target \in {f \in shownFish : f.id <= MaxShipments \/ f.id >= listLimit},
        up \in BOOLEAN : doDelete(target, up)

SpecLongList == InitLongList /\ [][NextLongList]_vars

\* ====================================================== the claims
\* C1: in every reachable state and for every Treatment, status = active if and
\* only if end_date is null if and only if outcome is null (also after the plain
\* 'complete' call).
C1_StatusEndDateOutcomeAgree ==
  \A t \in DOMAIN db.treatments :
    LET row == db.treatments[t]
    IN /\ (row.status = "active") <=> (row.end_date = null)
       /\ (row.end_date = null) <=> (row.outcome = nullText)

\* C2: a graduate call whose outcome_score is outside 1..5 (0 when missing) or whose
\* outcome is not one of the four values fails and leaves the Treatment unchanged:
\* it stays active, and end_date, outcome, outcome_score stay unset.
C2_InvalidGraduateFails ==
  [][(/\ last'.op = "doGraduate"
      /\ (last'.outcome_score \notin 1..5 \/ last'.outcome \notin Outcomes))
     => (/\ ~last'.ok
         /\ db' = db
         /\ LET row == db'.treatments[last'.id]
            IN /\ row.status = "active"
               /\ row.end_date = null
               /\ row.outcome = nullText
               /\ row.outcome_score = null)]_vars

C2_Witness ==
  /\ last.op = "doGraduate"
  /\ last.outcome_score \notin 1..5
  /\ last.outcome \in Outcomes
  /\ db.treatments[last.id].status = "active"

\* C3: graduation is irreversible: once a Treatment's status is completed, no
\* operation returns it to active.
C3_CompletedNeverActiveAgain ==
  [][\A t \in DOMAIN db.treatments \cap DOMAIN db'.treatments :
       db.treatments[t].status = "completed" => db'.treatments[t].status # "active"]_vars

C3_Witness ==
  /\ last.op = "saveDetails"
  /\ last.ok
  /\ db.treatments[last.id].status = "completed"
  /\ db.treatments[last.id].outcome \in Outcomes

\* C4: graduate is the only active -> completed transition: every step in which a
\* Treatment's status changes from active to completed is a graduate call that
\* carries an outcome and an outcome_score.
C4_OnlyGraduateCompletes ==
  [][\A t \in DOMAIN db.treatments \cap DOMAIN db'.treatments :
       (db.treatments[t].status = "active" /\ db'.treatments[t].status = "completed")
       => (/\ last'.op = "doGraduate"
           /\ last'.outcome \in Outcomes
           /\ last'.outcome_score \in 1..5)]_vars

\* C5: open (start treatment) fails when aquarium_number or aquarium_volume_liters
\* is absent: no Treatment is created and the Shipment's tank fields are not
\* modified.
C5_StartWithoutTankFails ==
  [][(/\ last'.op = "doStartTreatment"
      /\ (last'.form.aquarium_number = "" \/ last'.form.aquarium_volume_liters = null))
     => (/\ ~last'.ok
         /\ db'.treatments = db.treatments
         /\ db'.shipments = db.shipments)]_vars

C5_Witness ==
  /\ last.op = "doStartTreatment"
  /\ last.form.aquarium_number = ""
  /\ last.form.aquarium_volume_liters # null
  /\ last.id \in DOMAIN db.shipments

\* C6 as stated: days_active of an active Treatment never decreases as the current
\* date advances, and once end_date is set days_active no longer changes, whatever
\* operation is applied (edit_details included) and however far the date advances.
C6_DaysActiveFrozenUnderAll ==
  [][\A t \in DOMAIN db.treatments \cap DOMAIN db'.treatments :
       LET row == db.treatments[t]
           row2 == db'.treatments[t]
       IN /\ (row.status = "active" /\ last'.op = "Tick")
               => daysActiveAt(row2, now') >= daysActiveAt(row, now)
          /\ row.end_date # null
               => daysActiveAt(row2, now') = daysActiveAt(row, now)]_vars

\* C6: days_active of an active Treatment never decreases as the current date
\* advances, and once end_date is set days_active no longer changes however far the
\* date advances and under every operation that leaves start_date and end_date as
\* they are; an edit_details that rewrites start_date is the one step that moves
\* the days_active of a Treatment whose end_date is set.
C6_DaysActiveFrozen ==
  [][\A t \in DOMAIN db.treatments \cap DOMAIN db'.treatments :
       LET row == db.treatments[t]
           row2 == db'.treatments[t]
       IN /\ (row.status = "active" /\ last'.op = "Tick")
               => daysActiveAt(row2, now') >= daysActiveAt(row, now)
          /\ (row.end_date # null /\ daysActiveAt(row2, now') # daysActiveAt(row, now))
               => (/\ last'.op = "saveDetails"
                   /\ row2.start_date # row.start_date
                   /\ row2.end_date = row.end_date)]_vars

\* a completed treatment, a full day or more after its end_date, the clock having
\* just advanced
C6_Witness ==
  /\ last.op = "Tick"
  /\ \E t \in DOMAIN db.treatments :
       LET row == db.treatments[t]
       IN /\ row.end_date # null
          /\ daysActive(row) > 0
          /\ TODAY > row.end_date

\* days_active and the drug periods of Treatment t as the specification defines
\* them, from the rows of the database
days_active(t) ==
  LET row == db.treatments[t]
  IN Max(0, (IF row.end_date # null THEN row.end_date ELSE TODAY) - row.start_date)

periods(t) ==
  {db.drug_protocols[db.treatment_drugs[k].drug_protocol_id].typical_treatment_period_days :
     k \in {j \in DOMAIN db.treatment_drugs : db.treatment_drugs[j].treatment_id = t}} \ {null}

\* C7: on every card, protocol_due is true if and only if the Treatment is active
\* and days_active >= the maximum typical_treatment_period_days over its drugs,
\* drugs without a period being ignored; it is false for a completed Treatment and
\* for a Treatment none of whose drugs has a period.
C7_ProtocolDue ==
  route = "/treatments" =>
    \A t \in DOMAIN treatments :
      LET card == enriched(treatments[t])
      IN /\ card.protocolDue <=>
              (/\ db.treatments[t].status = "active"
               /\ periods(t) # {}
               /\ \A p \in periods(t) : days_active(t) >= p)
         /\ db.treatments[t].status = "completed" => ~card.protocolDue
         /\ periods(t) = {} => ~card.protocolDue

\* an active treatment with two drugs of different periods that is due, on the day
\* the longer period is reached
C7_Witness ==
  /\ route = "/treatments"
  /\ \E t \in DOMAIN treatments :
       /\ enriched(treatments[t]).protocolDue
       /\ Cardinality(periods(t)) = 2
       /\ \E p \in periods(t) : days_active(t) = p
       /\ \E p \in periods(t) : days_active(t) > p

\* what a surface shows for quantity q and volume v: quantity / volume to two
\* decimals when the volume is above the sentinel 1, nothing otherwise
DensityShownAsSpecified(q, v, shown) ==
  IF v # null /\ v > 1
  THEN shown # null /\ 2 * (IF 100 * q >= shown * v THEN 100 * q - shown * v
                                                     ELSE shown * v - 100 * q) <= v
  ELSE shown = null

\* C8: density is defined (quantity / volume) whenever the volume is > 1 and is
\* unset when the volume is missing or <= 1, on every surface that shows it: the
\* treatment cards, the density hint of the start-treatment modal and the density
\* column of the shipments table.
C8_DensityOnEverySurface ==
  /\ \A k \in DOMAIN db.shipments :
       DensityShownAsSpecified(db.shipments[k].quantity,
                               db.shipments[k].aquarium_volume_liters,
                               shipments_density(db.shipments[k]))
  /\ route = "/treatments" =>
       \A t \in DOMAIN treatments :
         LET s == db.shipments[treatments[t].shipment_id]
         IN DensityShownAsSpecified(s.quantity, s.aquarium_volume_liters,
                                    enriched(treatments[t]).density)
  /\ treatTarget # noTarget =>
       DensityShownAsSpecified(treatTarget.quantity, treatForm.aquarium_volume_liters,
                               densityHint)

\* C9: deleting an Invoice that has N Shipments deletes none of them: all N persist
\* with no invoice association and are shown as standalone, and the Treatments (and
\* the rows that hang off them) are unaffected.
C9_DeleteInvoiceFreesShipments ==
  [][(last'.op = "doDeleteInvoice" /\ last'.ok)
     => LET attached == {k \in DOMAIN db.shipments : db.shipments[k].invoice_id = last'.id}
        IN /\ last'.id \in db.invoices /\ last'.id \notin db'.invoices
           /\ DOMAIN db'.shipments = DOMAIN db.shipments
           /\ \A k \in DOMAIN db.shipments :
                db'.shipments[k] =
                  IF k \in attached THEN [db.shipments[k] EXCEPT !.invoice_id = null]
                                    ELSE db.shipments[k]
           /\ \A k \in attached :
                /\ k \in {f.id : f \in Range(standaloneShipments')}
                /\ k \notin invoiceShipmentIds(invoices')
           /\ db'.treatments = db.treatments
           /\ db'.treatment_drugs = db.treatment_drugs
           /\ db'.daily_observations = db.daily_observations
           /\ db'.followup_assessments = db.followup_assessments]_vars

\* an invoice with two fish, one of them under treatment, has just been deleted
C9_Witness ==
  /\ last.op = "doDeleteInvoice"
  /\ last.ok
  /\ Cardinality(last.shipments) = 2
  /\ last.shipments \subseteq DOMAIN db.shipments
  /\ \E t \in DOMAIN db.treatments : db.treatments[t].shipment_id \in last.shipments

\* C10: deleting a Shipment removes all of its Treatments and, with them, their
\* TreatmentDrug rows, Observations and Follow-ups.
C10_DeleteShipmentCascades ==
  [][(last'.op = "doDelete" /\ last'.ok)
     => /\ last'.id \in DOMAIN db.shipments /\ last'.id \notin DOMAIN db'.shipments
        /\ \A t \in DOMAIN db.treatments :
             db.treatments[t].shipment_id = last'.id => t \notin DOMAIN db'.treatments
        /\ \A t \in DOMAIN db'.treatments : db'.treatments[t].shipment_id \in DOMAIN db'.shipments
        /\ \A k \in DOMAIN db'.treatment_drugs :
             db'.treatment_drugs[k].treatment_id \in DOMAIN db'.treatments
        /\ \A k \in DOMAIN db'.daily_observations :
             db'.daily_observations[k].treatment_id \in DOMAIN db'.treatments
        /\ \A k \in DOMAIN db'.followup_assessments :
             db'.followup_assessments[k].treatment_id \in DOMAIN db'.treatments]_vars

\* a fish whose treatment had a drug, an observation and a follow-up has just been
\* deleted
C10_Witness ==
  /\ last.op = "doDelete"
  /\ last.ok
  /\ last.treatments # {}
  /\ last.treatment_drugs # {}
  /\ last.daily_observations # {}
  /\ last.followup_assessments # {}
  /\ last.id \notin DOMAIN db.shipments

\* C11: recording an Observation (the Daily Rounds "Save", the Daily Checklist
\* submission) changes nothing but the set of Observations: the Treatment's status,
\* end_date and outcome are unchanged; and no step of a recording or of the clock
\* takes a Treatment that has reached protocol_due out of active.
C11_RecordingOnlyAddsObservations ==
  [][/\ last'.op \in {"save", "DailyChecklist_handleSubmit"} =>
          /\ db'.treatments = db.treatments
          /\ db'.shipments = db.shipments
          /\ db'.treatment_drugs = db.treatment_drugs
          /\ db'.followup_assessments = db.followup_assessments
          /\ db'.drug_protocols = db.drug_protocols
          /\ db'.invoices = db.invoices
          /\ \A k \in DOMAIN db.daily_observations :
               /\ k \in DOMAIN db'.daily_observations
               /\ db'.daily_observations[k] = db.daily_observations[k]
     /\ last'.op \in {"save", "DailyChecklist_handleSubmit", "Tick"} =>
          \A t \in DOMAIN db.treatments :
            db.treatments[t].status = "active" =>
              /\ t \in DOMAIN db'.treatments
              /\ db'.treatments[t].status = "active"]_vars

\* an observation has just been recorded from the rounds for an active treatment
\* that is past the period of its drug
C11_Witness ==
  /\ last.op = "save"
  /\ last.ok
  /\ db.treatments[last.id].status = "active"
  /\ periods(last.id) # {}
  /\ \A p \in periods(last.id) : days_active(last.id) >= p
  /\ \E k \in DOMAIN db.daily_observations : db.daily_observations[k].treatment_id = last.id

\* C12: after any sequence of Daily Rounds operations (save, "Edit observation",
\* save again) and Daily Checklist submissions there is at most one Observation
\* row for a (treatment_id, observation_date).
C12_OneObservationPerDay ==
  \A j, k \in DOMAIN db.daily_observations :
    (/\ db.daily_observations[j].treatment_id = db.daily_observations[k].treatment_id
     /\ db.daily_observations[j].observation_date = db.daily_observations[k].observation_date)
    => j = k

\* the TreatmentDrug rows of treatment t in database d
drugRows(d, t) == {k \in DOMAIN d.treatment_drugs : d.treatment_drugs[k].treatment_id = t}

\* C13: add_drug is permitted on a Treatment in any status: an answered request
\* succeeds and the Treatment's number of TreatmentDrug rows grows by exactly one,
\* also when the same drug protocol is already assigned.
C13_AddDrugInAnyStatus ==
  [][(last'.op = "addDrug" /\ last'.up)
     => /\ last'.ok
        /\ Cardinality(drugRows(db', last'.id)) = Cardinality(drugRows(db, last'.id)) + 1
        /\ drugRows(db, last'.id) \subseteq drugRows(db', last'.id)
        /\ \A k \in drugRows(db', last'.id) \ drugRows(db, last'.id) :
             db'.treatment_drugs[k].drug_protocol_id = last'.drug_protocol_id
        /\ db'.treatments = db.treatments]_vars

\* a drug protocol has just been added a second time, to a completed treatment
C13_Witness ==
  /\ last.op = "addDrug"
  /\ last.ok
  /\ db.treatments[last.id].status = "completed"
  /\ Cardinality({k \in drugRows(db, last.id) :
                    db.treatment_drugs[k].drug_protocol_id = last.drug_protocol_id}) = 2

\* C14: edit_details changes only the owning Shipment's aquarium_number,
\* aquarium_volume_liters and quantity and the Treatment's start_date; the
\* Treatment's status, end_date, outcome fields and drug rows, and every other row,
\* are left unchanged.
C14_EditDetailsFrame ==
  [][last'.op = "saveDetails"
     => LET owner == db.treatments[last'.id].shipment_id
        IN /\ DOMAIN db'.treatments = DOMAIN db.treatments
           /\ \A t \in DOMAIN db.treatments :
                db'.treatments[t] =
                  IF t = last'.id
                  THEN [db.treatments[t] EXCEPT !.start_date = db'.treatments[t].start_date]
                  ELSE db.treatments[t]
           /\ DOMAIN db'.shipments = DOMAIN db.shipments
           /\ \A k \in DOMAIN db.shipments :
                db'.shipments[k] =
                  IF k = owner
                  THEN [db.shipments[k] EXCEPT
                          !.aquarium_number = db'.shipments[k].aquarium_number,
                          !.aquarium_volume_liters = db'.shipments[k].aquarium_volume_liters,
                          !.quantity = db'.shipments[k].quantity]
                  ELSE db.shipments[k]
           /\ db'.treatment_drugs = db.treatment_drugs
           /\ db'.daily_observations = db.daily_observations
           /\ db'.followup_assessments = db.followup_assessments
           /\ db'.invoices = db.invoices]_vars

\* the details of a completed treatment with a drug have just been saved: the tank,
\* the quantity and the start date are the ones typed
C14_Witness ==
  /\ last.op = "saveDetails"
  /\ last.ok
  /\ db.treatments[last.id].status = "completed"
  /\ db.treatments[last.id].start_date # db.treatments[last.id].end_date
  /\ drugRows(db, last.id) # {}
  /\ LET s == db.shipments[db.treatments[last.id].shipment_id]
     IN s.aquarium_number = "B" /\ s.aquarium_volume_liters = 4 /\ s.quantity = 5

\* the row holds the values of one graduate call
GraduatedAs(row, form) ==
  /\ row.status = "completed"
  /\ row.end_date = form.end_date
  /\ row.outcome = form.outcome
  /\ row.outcome_score = form.outcome_score
  /\ row.total_mortality = form.total_mortality
  /\ row.outcome_notes = (IF form.outcome_notes = "" THEN nullText ELSE form.outcome_notes)

\* C15: when two callers graduate the same active Treatment concurrently, after each
\* served call the Treatment is completed and its end_date, outcome, outcome_score,
\* total_mortality and outcome_notes are all those of that call (the last write), and
\* no other step touches them: values of two calls are never mixed.
C15_GraduateLastWriteWins ==
  [][IF last'.op = "caller_served" /\ last'.ok
     THEN GraduatedAs(db'.treatments[last'.id], last'.form)
     ELSE \A t \in DOMAIN db.treatments :
            /\ t \in DOMAIN db'.treatments
            /\ \A f \in {"status", "end_date", "outcome", "outcome_score",
                         "total_mortality", "outcome_notes"} :
                 db'.treatments[t][f] = db.treatments[t][f]]_vars

\* the call served last has overwritten the graduation of the other session, which
\* had other values in every field
C15_Witness ==
  /\ last.op = "caller_served"
  /\ last.ok
  /\ last.was.status = "completed"
  /\ last.was.end_date # last.form.end_date
  /\ last.was.outcome # last.form.outcome
  /\ last.was.outcome_score # last.form.outcome_score
  /\ last.was.total_mortality = 3 /\ last.form.total_mortality = 0
  /\ last.was.outcome_notes = "lost overnight" /\ last.form.outcome_notes = ""
  /\ \A c \in Callers : callers[c].graduateTarget = null

\* missing, undecodable or expired: no item or the empty string, a token whose second
\* segment is no base64 of a JSON object, an exp that has passed
BadCredential(item, clock) ==
  \/ item = <<>>
  \/ item[1] = <<>>
  \/ Len(item[1]) < 2
  \/ item[1][2].kind \in {"raw", "text", "null"}
  \/ item[1][2].kind = "claims" /\ item[1][2].exp # null /\ item[1][2].exp < clock

\* C16: every navigation to /shipments, /import, /daily or /checklist/:id with a
\* missing, undecodable or expired credential ends on /login with the requested
\* location as redirect, and a navigation to any other route ends on that route.
C16_AdminRoutesGuarded ==
  [][("to" \in DOMAIN last')
     => IF last'.to.path \in {"/shipments", "/import", "/daily", "/checklist"}
        THEN BadCredential(last'.item, now)
               => route' = "/login" /\ query' = <<last'.to>>
        ELSE route' = last'.to.path /\ query' = <<>>]_vars

\* a token that has expired since the login has just sent /checklist/1 to /login
C16_Witness ==
  /\ last.op = "navigate"
  /\ ~last.ok
  /\ last.to = Location("/checklist", 1)
  /\ last.item # <<>>
  /\ ~readExp(last.item[1]).threw
  /\ route = "/login"
  /\ query = <<Location("/checklist", 1)>>

\* C17: the stored import draft is overwritten on every row edit (cell input, add row,
\* remove row) so that it equals the import data in memory; it is removed by a
\* creation that created a shipment, by "Discard" and by "Upload Different Invoice",
\* and no other step removes it.
C17_DraftFollowsRowEdits ==
  [][/\ last'.op \in {"cellInput", "addRow", "removeRow"}
        => /\ fish_import_draft' # <<>>
           /\ extracted' # <<>>
           /\ JSON_parse(fish_import_draft'[1]) = extracted'[1]
     /\ (\/ last'.op \in {"clearDraft", "startOver"}
         \/ last'.op = "createAllShipments" /\ last'.created > 0)
        => fish_import_draft' = <<>>
     /\ (fish_import_draft # <<>> /\ fish_import_draft' = <<>>)
        => \/ last'.op \in {"clearDraft", "startOver"}
           \/ last'.op = "createAllShipments" /\ last'.created > 0]_vars

\* a row has just been removed from an import: the draft holds the row left and the
\* source country typed
C17_Witness ==
  /\ last.op = "removeRow"
  /\ fish_import_draft # <<>>
  /\ JSON_parse(fish_import_draft[1]).source_country = "Thailand"
  /\ Len(JSON_parse(fish_import_draft[1]).fish_species) = 1
  /\ JSON_parse(fish_import_draft[1]).fish_species[1].scientific_name = "Betta"

\* C18: a failure of the recommendation advisor never fails shipment creation: a
\* failed pre_shipment request leaves the recommendation as it was (absent when it
\* was absent), the shipment form, the database and the route unchanged, and a
\* create-shipment submission succeeds exactly when its own request gets through,
\* whatever the advisor answered.
C18_AdvisorFailureIsSoft ==
  [][/\ (last'.op = "getRecommendation" /\ ~last'.ok)
        => /\ recommendation' = recommendation
           /\ shipmentForm' = shipmentForm
           /\ db' = db
           /\ route' = route
     /\ last'.op = "handleSubmit"
        => /\ last'.ok = last'.up
           /\ last'.ok => /\ last'.id \in DOMAIN db'.shipments
                          /\ db'.shipments[last'.id].quantity = shipmentForm.quantity
                          /\ db'.shipments[last'.id].aquarium_volume_liters
                               = shipmentForm.aquarium_volume_liters]_vars

\* the advisor has just failed on a filled-in form: no recommendation, and the form
\* as typed
C18_Witness ==
  /\ last.op = "getRecommendation"
  /\ ~last.ok
  /\ recommendation = <<>>
  /\ shipmentForm.scientific_name = "Betta"
  /\ shipmentForm.source = "Sri Lanka"

\* C19: a pre_shipment recommendation for a species and source with sample_size = 0
\* (or with no knowledge at all) is marked low-confidence, carries no numeric success
\* rate, and the recommendation box shows no success rate for it.
C19_NoDataNoSuccessRate ==
  [][(/\ last'.op = "getRecommendation"
      /\ last'.ok
      /\ (last'.k = <<>> \/ last'.k[1].sample_size = 0))
     => /\ recommendation' # <<>>
        /\ recommendation'[1].confidence = "low"
        /\ recommendation'[1].success_rate = null
        /\ ~successRateShown(recommendation'[1])]_vars

\* the advisor has just answered for a pair whose knowledge holds a rate of 92 over
\* a sample of 0: the answer carries no rate
C19_Witness ==
  /\ last.op = "getRecommendation"
  /\ last.ok
  /\ last.k # <<>>
  /\ last.k[1].sample_size = 0
  /\ last.k[1].success_rate = 92
  /\ recommendation # <<>>
  /\ recommendation[1].success_rate = null
  /\ shipmentForm.scientific_name = "Betta"

\* the success rates of the follow-ups of the treatments of the shipments of a source
FollowupsOf(src) ==
  {f \in DOMAIN db.followup_assessments :
     db.shipments[db.treatments[db.followup_assessments[f].treatment_id].shipment_id].source
       = src}

RECURSIVE SumOfRates(_)
SumOfRates(fs) ==
  IF fs = {} THEN 0
  ELSE LET f == CHOOSE x \in fs : TRUE
       IN db.followup_assessments[f].success_rate + SumOfRates(fs \ {f})

\* C20: for a source whose shipments have no follow-up (with a rate) at all,
\* average_success_rate is null, never the number zero; a source with at least one
\* gets the mean of the success_rate of its follow-ups.
C20_AverageSuccessRate ==
  LET scores == suppliersAPI_getScores(db)
  IN /\ DOMAIN scores = {db.shipments[k].source : k \in DOMAIN db.shipments}
     /\ \A src \in DOMAIN scores :
          LET rated == {f \in FollowupsOf(src) :
                          db.followup_assessments[f].success_rate # null}
              avg == scores[src].average_success_rate
          IN IF rated = {} THEN avg = <<>>
             ELSE /\ avg # <<>>
                  /\ avg[1] = SumOfRates(rated)
                  /\ avg[2] = Cardinality(rated)

\* two sources: Thailand with two follow-ups of rates 0 and 100, Sri Lanka with a
\* shipment and no follow-up
C20_Witness ==
  LET scores == suppliersAPI_getScores(db)
  IN /\ DOMAIN scores = {"Thailand", "Sri Lanka"}
     /\ scores["Thailand"].average_success_rate = <<100, 2>>
     /\ scores["Sri Lanka"].average_success_rate = <<>>

\* ------------------------------------------------------------------ C21
\* C21: every stored shipment has quantity > 0 and aquarium_volume_liters > 0 after
\* any sequence of create, import, edit-fish and edit_details; an edit-fish or an
\* edit_details that would set quantity or volume to 0 is rejected and leaves the
\* shipments as they were.
setsZero(patch) ==
  \E f \in DOMAIN patch \cap {"quantity", "aquarium_volume_liters"} : patch[f] = 0

C21_ShipmentsStayPositive ==
  /\ [](\A id \in DOMAIN db.shipments :
          db.shipments[id].quantity > 0 /\ db.shipments[id].aquarium_volume_liters > 0)
  /\ [][/\ \A t \in DOMAIN treatments, form \in TankDetailsForms, up \in BOOLEAN :
             setsZero(detailsPatch(form)) /\ saveDetails(t, form, up, up)
               => ~last'.ok /\ db'.shipments = db.shipments
        /\ \A target \in shownFish, form \in TankEditForms, up \in BOOLEAN :
             setsZero(editPatch(form)) /\ doEdit(target, form, up)
               => ~last'.ok /\ db'.shipments = db.shipments]_vars

\* "Edit Fish" with the volume 0 was rejected, the request having reached the
\* server, after shipments were created by the form and by the import
C21_Witness ==
  /\ last.op = "doEdit" /\ ~last.ok /\ setsZero(last.patch)
  /\ Cardinality(DOMAIN db.shipments) > 1

\* ------------------------------------------------------------------ C22
\* C22: deleting a drug protocol that treatments reference succeeds and leaves the
\* treatments alone: the request being answered, the protocol is gone and every
\* treatment_drugs row is kept, the rows that hold the deleted protocol included.
C22_DeleteReferencedProtocol ==
  [][last'.op = "confirmDelete" /\ last'.up /\ treatment_drugs_fkey(db, last'.id)
       => /\ last'.ok
          /\ last'.id \notin DOMAIN db'.drug_protocols
          /\ db'.treatment_drugs = db.treatment_drugs
          /\ db'.treatments = db.treatments]_vars

\* ------------------------------------------------------------------ C23
\* C23: the day number of the daily rounds is never below 1, and for every active
\* treatment whose start_date is not in the future it is the days_active of the
\* Treatments view plus exactly 1: on the cards as they are loaded, and in the
\* checklist of an observation dated today.
C23_DayNumber ==
  /\ \A t \in DOMAIN cards : cards[t].daysActive >= 1
  /\ \A t \in DOMAIN db.treatments :
       LET row == db.treatments[t]
       IN /\ dr_daysActive(row) >= 1
          /\ dayNum(row.start_date, TODAY) >= 1
          /\ row.status = "active" /\ row.start_date <= TODAY
               => /\ dr_daysActive(row) = daysActive(row) + 1
                  /\ dayNum(row.start_date, TODAY) = daysActive(row) + 1
                  /\ last.op = "DailyRounds_mounted"
                       => t \in DOMAIN cards /\ cards[t].daysActive = daysActive(row) + 1

\* the daily rounds were opened on the second day or later of an active treatment
C23_Witness ==
  /\ last.op = "DailyRounds_mounted"
  /\ \E t \in DOMAIN cards :
       /\ db.treatments[t].status = "active"
       /\ db.treatments[t].start_date < TODAY
       /\ cards[t].daysActive = daysActive(db.treatments[t]) + 1
       /\ cards[t].daysActive >= 2

\* ------------------------------------------------------------------ C24
\* C24: start-treatment updates the tank of the shipment first and creates the
\* treatment only after that update succeeded: when the shipment update fails no
\* treatment is created, a treatment is created only with the tank of the form
\* stored on its shipment, and every treatment that exists belongs to a shipment
\* with its aquarium_number and aquarium_volume_liters set.
C24_TankBeforeTreatment ==
  /\ [](\A t \in DOMAIN db.treatments :
          LET s == db.shipments[db.treatments[t].shipment_id]
          IN ~FalsyText(s.aquarium_number) /\ ~FalsyNum(s.aquarium_volume_liters))
  /\ [][\A up \in Answers :
          doStartTreatment(<<>>, up[1], up[2])
            => /\ ~up[1] => db' = db
               /\ db'.treatments # db.treatments
                    => db'.shipments[treatTarget.id] =
                         Merge(db.shipments[treatTarget.id], tankPatch(treatForm))]_vars

\* a treatment was started for a shipment that was created without a tank
C24_Witness ==
  /\ last.op = "doStartTreatment" /\ last.ok
  /\ \E t \in DOMAIN db.treatments :
       /\ db.treatments[t].shipment_id = last.id
       /\ db.shipments[last.id].aquarium_number = last.form.aquarium_number
       /\ db.shipments[last.id].aquarium_volume_liters = last.form.aquarium_volume_liters
       /\ last.form.aquarium_number = "A"

\* ------------------------------------------------------------------ C25
\* C25: saveDetails is all-or-nothing: whenever it ends with its error shown,
\* neither the shipment (tank, quantity) nor the start_date of the treatment has
\* changed.
C25_SaveDetailsAllOrNothing ==
  [][last'.op = "saveDetails" /\ ~last'.ok
       => db'.shipments = db.shipments /\ db'.treatments = db.treatments]_vars

\* ------------------------------------------------------------------ C26
\* C26: the route guard and useAuth agree on every stored credential: whatever the
\* token and the time, a navigation to a requiresAdmin route is admitted if and
\* only if isAdmin is true.
C26_GuardAgreesWithUseAuth ==
  [][last'.op = "navigate" /\ routes[last'.to.path].requiresAdmin
       => (last'.ok <=> isAdmin)]_vars

\* ------------------------------------------------------------------ C27
\* C27: createAllShipments posts every species row exactly once, in order, and a
\* failing row does not stop the later rows: when it finishes, creating is false,
\* createProgress is the number of rows, the created shipments and the reported
\* row errors together are as many as the rows, and the rows whose request was
\* answered are created.
C27_EveryRowAttempted ==
  [][last'.op = "createAllShipments"
       => LET n == Len(extracted[1].fish_species)
          IN /\ ~last'.creating
             /\ last'.createProgress = n
             /\ last'.posted = [i \in 1..n |-> i]
             /\ Len(createdShipments') + Len(last'.errors) = n
             /\ \A i \in 1..n : last'.answers[i] <=> i \notin Range(last'.errors)
             /\ Cardinality(DOMAIN db'.shipments) =
                  Cardinality(DOMAIN db.shipments) + Len(createdShipments')]_vars

\* the first of two rows failed and the second was created
C27_Witness ==
  /\ last.op = "createAllShipments"
  /\ last.answers = <<FALSE, TRUE>>
  /\ last.errors = <<1>>
  /\ Len(createdShipments) = 1

\* ------------------------------------------------------------------ C28
\* C28: when at least one species row fails to be created by createAllShipments,
\* the import draft that was stored is still stored afterwards.
C28_DraftKeptWhenRowsFail ==
  [][last'.op = "createAllShipments" /\ last'.errors # <<>> /\ fish_import_draft # <<>>
       => fish_import_draft' # <<>>]_vars

shownPositions ==
  {<<0, j>> : j \in DOMAIN standaloneShipments} \cup
  UNION {{<<i, j>> : j \in DOMAIN invoices[i].shipments} : i \in DOMAIN invoices}

shownFishAt(p) ==
  IF p[1] = 0 THEN standaloneShipments[p[2]] ELSE invoices[p[1]].shipments[p[2]]

\* C30: in the Shipments list, after load and after add-fish, delete-fish and
\* delete-invoice, every shipment of the database is shown exactly once, under
\* one invoice or in the standalone list, and a deleted shipment is shown nowhere.
C30_EveryShipmentShownOnce ==
  (/\ route = "/shipments-list"
   /\ last.op \in {"ShipmentsList_mounted", "doAddFish", "doDelete", "doDeleteInvoice"})
  => /\ \A id \in DOMAIN db.shipments :
          Cardinality({p \in shownPositions : shownFishAt(p).id = id}) = 1
     /\ \A p \in shownPositions : shownFishAt(p).id \in DOMAIN db.shipments

====
